---- MODULE Spec2Model ----
(***************************************************************************)
(* Flugschule Mallorca - the page scripts of main.js:                      *)
(*   - the contact form: validateField / validateForm, the submit handler  *)
(*     of initContactForm, the real-time validation listeners,             *)
(*     handleFormSuccess, handleFormError and the timers they schedule;    *)
(*   - showNotification and its timers;                                    *)
(*   - initMobileMenu with the menu part of initSmoothScrolling;           *)
(*   - initStatisticsCounters.                                             *)
(* Each part has a specification of its own over the same variables; the   *)
(* variables of the other parts stay as the page delivers them.            *)
(*                                                                         *)
(* Strings are sequences of one-character strings.  Time is kept as the    *)
(* remaining delay (ms) of every pending setTimeout; Tick lets TickMs of   *)
(* time pass and is only possible while no timer is due.                   *)
(***************************************************************************)
EXTENDS Naturals, Integers, Sequences, FiniteSets, TLC

VARIABLES
    parentOf,       \* field id -> id of field.parentNode (fixed by the page)
    value,          \* field id -> field.value
    checked,        \* field id -> field.checked
    errorClass,     \* field id -> field.classList.contains('error')
    errorMsgs,      \* parent id -> its '.error-message' children, in document order
    formMsgs,       \* the '.form-message' children of the form, in document order
    buttonDisabled, \* submitButton.disabled
    buttonHTML,     \* submitButton.innerHTML
    timers,         \* pending setTimeout callbacks
    lastEvent,      \* the handler that ran last (history)
    vfField,        \* validateField harness: the field passed in
    vfResult,       \* validateField harness: what the call returned
    notifications,  \* the '.notification' children of document.body, in document order
    noteTimers,     \* pending setTimeout callbacks of showNotification
    menuHidden,     \* mobileMenu.classList.contains('hidden')
    ariaLabel,      \* aria-label of mobileMenuButton
    bodyOverflow,   \* document.body.style.overflow
    isAnimating,    \* the flag of initMobileMenu
    menuTimers,     \* pending setTimeout callbacks of the mobile menu
    userIdle,       \* the visitor has stopped interacting with the menu
    hasObserver,    \* 'IntersectionObserver' in window
    countersReady,  \* initStatisticsCounters has run
    hasAnimated,    \* the flag of initStatisticsCounters
    observing,      \* the IntersectionObserver is connected to '.stats-grid'
    inView,         \* '.stats-grid' is where checkStatisticsInView finds it in view
    ticking,        \* the flag of the throttled scroll listener
    counterTimers,  \* pending setTimeout callbacks of the counters
    started,        \* counter index -> number of animateCounter calls (history)
    triggered,      \* number of times the counters were triggered (history)
    emailValue,     \* value of the e-mail input of '#charter-form'
    emailError,     \* that input carries the error class and its error message
    charterReady,   \* initCharterInquiry has run
    submits,        \* number of submit events of '#charter-form' so far (history)
    pageYOffset,    \* window.pageYOffset
    isVisible,      \* the flag of initScrollToTop
    scrollButtonOpacity, \* scrollButton.style.opacity
    scrollTicking,  \* the flag 'ticking' of the scroll listener of initScrollToTop
    pendingFrames,  \* animation-frame callbacks of initScrollToTop not yet run
    scrolled,       \* a scroll event was dispatched since initScrollToTop (history)
    smoothScrolling, \* the smooth scroll to the top is on its way
    images,         \* image id -> the img element, its observers and its loading
    mainLazyReady,  \* initImageLoading of main.js has run
    loaderLazyReady, \* ImageLoader.initLazyLoading has run
    loaderPhase,    \* where ImageLoader.init() stands
    supportsWebP,   \* this.supportsWebP
    imageManifest,  \* this.imageManifest
    manifestFetches, \* number of fetch calls for the manifest so far (history)
    manifestResponse, \* how the fetch of the manifest ended (history)
    lastCall,       \* the last call of getOptimizedImageSrc and its outcome (history)
    request,        \* the HTTP request a form-submission endpoint is invoked with
    response        \* what the endpoint answered and whether it logged a lead

vars == <<parentOf, value, checked, errorClass, errorMsgs, formMsgs,
          buttonDisabled, buttonHTML, timers, lastEvent, vfField, vfResult,
          notifications, noteTimers,
          menuHidden, ariaLabel, bodyOverflow, isAnimating, menuTimers, userIdle,
          hasObserver, countersReady, hasAnimated, observing, inView, ticking,
          counterTimers, started, triggered,
          emailValue, emailError, charterReady, submits,
          pageYOffset, isVisible, scrollButtonOpacity, scrollTicking, pendingFrames,
          scrolled, smoothScrolling, images, mainLazyReady, loaderLazyReady,
          loaderPhase, supportsWebP, imageManifest, manifestFetches, manifestResponse,
          lastCall, request, response>>

formVars == <<parentOf, value, checked, errorClass, errorMsgs, formMsgs,
              buttonDisabled, buttonHTML, timers, lastEvent>>

\* the contact form without the history variable
formState == <<parentOf, value, checked, errorClass, errorMsgs, formMsgs,
               buttonDisabled, buttonHTML, timers>>

harnessVars == <<vfField, vfResult>>

notifyVars == <<notifications, noteTimers>>

menuVars == <<menuHidden, ariaLabel, bodyOverflow, isAnimating, menuTimers, userIdle>>

counterVars == <<hasObserver, countersReady, hasAnimated, observing, inView, ticking,
                 counterTimers, started, triggered>>

charterVars == <<emailValue, emailError, charterReady, submits>>

\* the parts of the page no handler of the form, the notifications, the menu
\* or the counters touches
scrollTopVars == <<pageYOffset, isVisible, scrollButtonOpacity, scrollTicking,
                   pendingFrames, scrolled, smoothScrolling>>

imageVars == <<images, mainLazyReady, loaderLazyReady>>

loaderVars == <<loaderPhase, supportsWebP, imageManifest, manifestFetches,
                manifestResponse, lastCall>>

endpointVars == <<request, response>>

laterParts == <<charterVars, scrollTopVars, imageVars, loaderVars, endpointVars>>

\* what the handlers of the contact form never touch
restOfPage == <<notifyVars, menuVars, counterVars, laterParts>>

\* what showNotification and its callbacks never touch
outsideNotify == <<formState, harnessVars, menuVars, counterVars, laterParts>>

\* what the handlers of the mobile menu never touch
outsideMenu == <<formState, harnessVars, notifyVars, counterVars, laterParts>>

\* what initStatisticsCounters never touches
outsideCounters == <<formState, harnessVars, notifyVars, menuVars, laterParts>>

\* what the handlers of a form that is also '#charter-form' never touch
outsideCharter == <<parentOf, harnessVars, menuVars, counterVars, scrollTopVars, imageVars,
                    loaderVars, endpointVars>>

\* what initScrollToTop never touches
outsideScrollTop == <<formState, harnessVars, notifyVars, menuVars, counterVars, charterVars,
                      imageVars, loaderVars, endpointVars>>

\* what the image loading never touches
outsideImages == <<formState, harnessVars, notifyVars, menuVars, counterVars, charterVars,
                   scrollTopVars, loaderVars, endpointVars>>

\* what ImageLoader never touches
outsideLoader == <<formState, harnessVars, notifyVars, menuVars, counterVars, charterVars,
                   scrollTopVars, mainLazyReady, endpointVars>>

\* what the form-submission endpoints never touch: the page in the browser
outsideEndpoint == <<formVars, harnessVars, notifyVars, menuVars, counterVars, charterVars,
                     scrollTopVars, imageVars, loaderVars>>

-----------------------------------------------------------------------------
(* Bounds *)

MaxLen == 6        \* longest raw value given to the validateField harness
MaxTimers == 2     \* most setTimeout callbacks pending at once
MaxNotes == 2      \* most notifications whose timers are still pending
MaxMenuTimers == 3 \* most setTimeout callbacks of the mobile menu pending at once
MaxEntries == 2    \* most entries one IntersectionObserver callback receives

-----------------------------------------------------------------------------
(* Characters and strings *)

Whitespace == {" "}
Digits == {"0", "1", "2", "3", "4", "5", "6", "7", "8", "9"}
LowerLetters == {"a", "b", "c", "d", "e", "f", "g", "h", "i", "j", "k", "l", "m",
                 "n", "o", "p", "q", "r", "s", "t", "u", "v", "w", "x", "y", "z"}
UpperLetters == {"A", "B", "C", "D", "E", "F", "G", "H", "I", "J", "K", "L", "M",
                 "N", "O", "P", "Q", "R", "S", "T", "U", "V", "W", "X", "Y", "Z"}
Umlauts == {"ä", "ö", "ü", "Ä", "Ö", "Ü", "ß"}

\* [^\s@]
NotSpaceNotAt(c) == c \notin Whitespace /\ c # "@"

\* [0-9\s\-\(\)\.]
PhoneChar(c) == c \in Digits \cup Whitespace \cup {"-", "(", ")", "."}

\* [a-zA-ZäöüÄÖÜß\s\-\.]
NameChar(c) == c \in LowerLetters \cup UpperLetters \cup Umlauts \cup Whitespace \cup {"-", "."}

RECURSIVE TrimStart(_)
TrimStart(s) ==
    IF s # <<>> /\ Head(s) \in Whitespace THEN TrimStart(Tail(s)) ELSE s

RECURSIVE TrimEnd(_)
TrimEnd(s) ==
    IF s # <<>> /\ s[Len(s)] \in Whitespace
        THEN TrimEnd(SubSeq(s, 1, Len(s) - 1))
        ELSE s

\* String.prototype.trim
Trim(s) == TrimEnd(TrimStart(s))

\* /^[^\s@]+@[^\s@]+\.[^\s@]+$/.test(s)
emailRegexNoDot(s) ==
    \E i \in 1..Len(s) :
        /\ s[i] = "@"
        /\ i > 1
        /\ i < Len(s)
        /\ \A k \in (1..Len(s)) \ {i} : NotSpaceNotAt(s[k])

emailRegex(s) ==
    \E i \in 1..Len(s) : \E j \in 1..Len(s) :
        /\ s[i] = "@"
        /\ s[j] = "."
        /\ 1 < i
        /\ i + 1 < j
        /\ j < Len(s)
        /\ \A k \in 1..(i - 1) : NotSpaceNotAt(s[k])
        /\ \A k \in (i + 1)..(j - 1) : NotSpaceNotAt(s[k])
        /\ \A k \in (j + 1)..Len(s) : NotSpaceNotAt(s[k])

\* the phone pattern with {7,} in place of {8,}
phoneRegexSevenOrMore(s) ==
    LET rest == IF s # <<>> /\ Head(s) = "+" THEN Tail(s) ELSE s
    IN  \/ /\ Len(s) >= 7
           /\ \A k \in 1..Len(s) : PhoneChar(s[k])
        \/ /\ Len(rest) >= 7
           /\ \A k \in 1..Len(rest) : PhoneChar(rest[k])

\* /^[\+]?[0-9\s\-\(\)\.]{8,}$/.test(s)
phoneRegex(s) ==
    LET rest == IF s # <<>> /\ Head(s) = "+" THEN Tail(s) ELSE s
    IN  \/ /\ Len(s) >= 8
           /\ \A k \in 1..Len(s) : PhoneChar(s[k])
        \/ /\ Len(rest) >= 8
           /\ \A k \in 1..Len(rest) : PhoneChar(rest[k])

\* the name pattern without the German letters: /^[a-zA-Z\s\-\.]{2,}$/
nameRegexAscii(s) ==
    /\ Len(s) >= 2
    /\ \A k \in 1..Len(s) :
          s[k] \in LowerLetters \cup UpperLetters \cup Whitespace \cup {"-", "."}

\* /^[a-zA-ZäöüÄÖÜß\s\-\.]{2,}$/.test(s)
nameRegex(s) ==
    /\ Len(s) >= 2
    /\ \A k \in 1..Len(s) : NameChar(s[k])

-----------------------------------------------------------------------------
(* validateField: the value it returns and the message it shows *)

MIN_MESSAGE_LENGTH == 10
MAX_MESSAGE_LENGTH == 1000

\* const value = field.value ? field.value.trim() : ''
trimmedValue(field) == IF field.value # <<>> THEN Trim(field.value) ELSE <<>>

\* the checkbox / required branch of validateField
requiredCheckLoose(field) ==
    LET v == trimmedValue(field)
    IN  IF field.type = "checkbox" /\ field.required
            THEN IF ~field.checked
                    THEN [isValid |-> FALSE,
                          errorMessage |-> "Sie müssen der Datenschutzerklärung zustimmen."]
                    ELSE [isValid |-> TRUE, errorMessage |-> ""]
        ELSE IF field.required /\ field.value = <<>>
            THEN [isValid |-> FALSE, errorMessage |-> "Dieses Feld ist erforderlich."]
        ELSE [isValid |-> TRUE, errorMessage |-> ""]

requiredCheck(field) ==
    LET v == trimmedValue(field)
    IN  IF field.type = "checkbox" /\ field.required
            THEN IF ~field.checked
                    THEN [isValid |-> FALSE,
                          errorMessage |-> "Sie müssen der Datenschutzerklärung zustimmen."]
                    ELSE [isValid |-> TRUE, errorMessage |-> ""]
        ELSE IF field.required /\ v = <<>>
            THEN [isValid |-> FALSE,
                  errorMessage |->
                      CASE field.name = "name" -> "Bitte geben Sie Ihren Namen ein."
                        [] field.name = "email" -> "Bitte geben Sie Ihre E-Mail-Adresse ein."
                        [] field.name = "message" -> "Bitte geben Sie eine Nachricht ein."
                        [] OTHER -> "Dieses Feld ist erforderlich."]
        ELSE [isValid |-> TRUE, errorMessage |-> ""]

\* switch (fieldType) { case 'email' ... case 'tel' ... case 'text' ... }
typeCheck(field, r) ==
    LET v == trimmedValue(field)
    IN  CASE field.type = "email" /\ ~emailRegex(v) ->
                [isValid |-> FALSE,
                 errorMessage |-> "Bitte geben Sie eine gültige E-Mail-Adresse ein."]
          [] field.type = "tel" /\ ~phoneRegex(v) ->
                [isValid |-> FALSE,
                 errorMessage |-> "Bitte geben Sie eine gültige Telefonnummer ein."]
          [] field.type = "text" /\ field.name = "name" /\ ~nameRegex(v) ->
                [isValid |-> FALSE,
                 errorMessage |-> "Bitte geben Sie einen gültigen Namen ein (mindestens 2 Zeichen)."]
          [] OTHER -> r

\* the length check with <= 10 in place of < 10
messageLengthCheckExclusive(field, r) ==
    LET v == trimmedValue(field)
    IN  IF field.tagName = "textarea" /\ field.name = "message"
            THEN IF Len(v) <= MIN_MESSAGE_LENGTH
                    THEN [isValid |-> FALSE,
                          errorMessage |-> "Ihre Nachricht sollte mindestens 10 Zeichen lang sein."]
                 ELSE IF Len(v) > MAX_MESSAGE_LENGTH
                    THEN [isValid |-> FALSE,
                          errorMessage |-> "Ihre Nachricht ist zu lang (maximal 1000 Zeichen)."]
                 ELSE r
            ELSE r

\* if (field.tagName.toLowerCase() === 'textarea' && fieldName === 'message') ...
messageLengthCheck(field, r) ==
    LET v == trimmedValue(field)
    IN  IF field.tagName = "textarea" /\ field.name = "message"
            THEN IF Len(v) < MIN_MESSAGE_LENGTH
                    THEN [isValid |-> FALSE,
                          errorMessage |-> "Ihre Nachricht sollte mindestens 10 Zeichen lang sein."]
                 ELSE IF Len(v) > MAX_MESSAGE_LENGTH
                    THEN [isValid |-> FALSE,
                          errorMessage |-> "Ihre Nachricht ist zu lang (maximal 1000 Zeichen)."]
                 ELSE r
            ELSE r

\* validateField without the 'value &&' guard of the field-specific checks
validationOfAnyValue(field) ==
    LET r1 == requiredCheck(field)
    IN  IF r1.isValid
            THEN messageLengthCheck(field, typeCheck(field, r1))
            ELSE r1

\* isValid and errorMessage as validateField computes them
validation(field) ==
    LET r1 == requiredCheck(field)
    IN  IF trimmedValue(field) # <<>> /\ r1.isValid
            THEN messageLengthCheck(field, typeCheck(field, r1))
            ELSE r1

-----------------------------------------------------------------------------
(* The contact form of the page *)

\* the fields of the form, in document order ('input, textarea, select')
Fields == <<
    [type |-> "text",     name |-> "name",    tagName |-> "input",    required |-> TRUE],
    [type |-> "checkbox", name |-> "privacy", tagName |-> "input",    required |-> TRUE] >>

FieldIds == 1..Len(Fields)

\* the elements that are the parentNode of some field
Parents == FieldIds

\* every field in a wrapper of its own, or all fields children of one element
Layouts == { [f \in FieldIds |-> f],
             [f \in FieldIds |-> 1] }

\* what the user may type into a field
Typed(f) ==
    CASE Fields[f].name = "name" -> { <<"A", "l">> }
      [] OTHER -> {}

\* the value attribute / checked attribute form.reset() restores
defaultValue == [f \in FieldIds |-> <<>>]
defaultChecked == [f \in FieldIds |-> FALSE]

\* submitButton.innerHTML as the page delivers it, and the loading indicator
ORIGINAL_LABEL == "Nachricht senden"
LOADING_LABEL == "Wird gesendet..."

SUBMIT_DELAY == 2000
MESSAGE_LIFETIME == 8000
TickMs == SUBMIT_DELAY

\* the part of the document the validation reads and writes
currentDom == [value |-> value, checked |-> checked,
               errorClass |-> errorClass, errorMsgs |-> errorMsgs]

\* the field object validateField reads
fieldObject(dom, f) ==
    [type |-> Fields[f].type, name |-> Fields[f].name, tagName |-> Fields[f].tagName,
     required |-> Fields[f].required, value |-> dom.value[f], checked |-> dom.checked[f]]

-----------------------------------------------------------------------------
(* validateField and validateForm on the document *)

\* const existingError = field.parentNode.querySelector('.error-message');
\* if (existingError) existingError.remove();
removeExistingError(msgs) == IF msgs # <<>> THEN Tail(msgs) ELSE msgs

\* validateField(field): the document it leaves
validateField(dom, f) ==
    LET r == validation(fieldObject(dom, f))
        p == parentOf[f]
        cleared == removeExistingError(dom.errorMsgs[p])
    IN  [dom EXCEPT
            !.errorClass[f] = ~r.isValid,
            !.errorMsgs[p] = IF r.isValid THEN cleared
                             ELSE Append(cleared, [owner |-> f, text |-> r.errorMessage])]

RECURSIVE validateUntilFirstFailure(_, _)
validateUntilFirstFailure(dom, f) ==
    IF f > Len(Fields) THEN dom
    ELSE IF validation(fieldObject(dom, f)).isValid
        THEN validateUntilFirstFailure(validateField(dom, f), f + 1)
        ELSE validateField(dom, f)

\* validateForm with fields.every(validateField) in place of forEach
validateFormStoppingEarly(dom) == validateUntilFirstFailure(dom, 1)

RECURSIVE validateFrom(_, _)
validateFrom(dom, f) ==
    IF f > Len(Fields) THEN dom ELSE validateFrom(validateField(dom, f), f + 1)

\* validateForm(form): the document after fields.forEach(validateField)
validateForm(dom) == validateFrom(dom, 1)

\* validateForm(form): the value it returns
isFormValid(dom) == \A f \in FieldIds : validation(fieldObject(dom, f)).isValid

-----------------------------------------------------------------------------
(* Timers: the pending setTimeout callbacks, in the order they were set *)

TimerIndices == 1..Len(timers)

\* ids of the timers and of the message elements that still exist
usedIds == { timers[i].id : i \in TimerIndices } \cup { formMsgs[i].id : i \in 1..Len(formMsgs) }
freshId == CHOOSE n \in 0..Cardinality(usedIds) : n \notin usedIds

submissionTimers == { timers[i] : i \in { j \in TimerIndices : timers[j].kind = "submission" } }
removalTimers == { timers[i] : i \in { j \in TimerIndices : timers[j].kind = "removeMessage" } }

\* setTimeout(() => handleFormSuccess(contactForm, submitButton, originalButtonText), 2000)
submissionTimer(id, originalButtonText) ==
    [kind |-> "submission", id |-> id, remaining |-> SUBMIT_DELAY,
     originalButtonText |-> originalButtonText]

\* setTimeout(() => { if (message.parentNode) message.remove(); }, 8000)
removalTimer(id) ==
    [kind |-> "removeMessage", id |-> id, remaining |-> MESSAGE_LIFETIME,
     originalButtonText |-> ""]

\* the timers left once timer i has run
withoutTimer(i) == SubSeq(timers, 1, i - 1) \o SubSeq(timers, i + 1, Len(timers))

\* timer i is due, and no timer of the same delay set before it is still waiting
isDue(i) ==
    /\ timers[i].remaining = 0
    /\ \A j \in 1..(i - 1) : timers[j].kind # timers[i].kind

-----------------------------------------------------------------------------
(* Events on the fields: input, blur, change *)

setDom(dom) ==
    /\ value' = dom.value
    /\ checked' = dom.checked
    /\ errorClass' = dom.errorClass
    /\ errorMsgs' = dom.errorMsgs

event(type, n, validated) == [type |-> type, field |-> n, validated |-> validated]

\* an input listener that validates on every keystroke
onInputAlways(dom, f) == validateField(dom, f)

\* field.addEventListener('input', ...): validate only a field marked invalid
onInput(dom, f) == IF dom.errorClass[f] THEN validateField(dom, f) ELSE dom

\* field.addEventListener('blur', ...)
onBlur(dom, f) == validateField(dom, f)

\* field.addEventListener('change', ...) of a checkbox
onChange(dom, f) == validateField(dom, f)

\* the user edits a text field: the value changes, then 'input' is dispatched
Input(f, v) ==
    /\ Fields[f].type # "checkbox"
    /\ v # value[f]
    /\ setDom(onInput([currentDom EXCEPT !.value[f] = v], f))
    /\ lastEvent' = event("input", f, errorClass[f])
    /\ UNCHANGED <<parentOf, formMsgs, buttonDisabled, buttonHTML, timers, harnessVars, restOfPage>>

\* a blur listener that drops a pending submission when the field is invalid
BlurAborting(f) ==
    /\ setDom(onBlur(currentDom, f))
    /\ lastEvent' = event("blur", f, TRUE)
    /\ timers' = IF validation(fieldObject(currentDom, f)).isValid
                    THEN timers
                    ELSE SelectSeq(timers, LAMBDA t : t.kind # "submission")
    /\ UNCHANGED <<parentOf, formMsgs, buttonDisabled, buttonHTML, harnessVars, restOfPage>>

\* the user leaves a field
Blur(f) ==
    /\ setDom(onBlur(currentDom, f))
    /\ lastEvent' = event("blur", f, TRUE)
    /\ UNCHANGED <<parentOf, formMsgs, buttonDisabled, buttonHTML, timers, harnessVars, restOfPage>>

\* the user clicks a checkbox: checked flips, then 'input' and 'change' are dispatched
Toggle(f) ==
    /\ Fields[f].type = "checkbox"
    /\ setDom(onChange(onInput([currentDom EXCEPT !.checked[f] = ~checked[f]], f), f))
    /\ lastEvent' = event("change", f, TRUE)
    /\ UNCHANGED <<parentOf, formMsgs, buttonDisabled, buttonHTML, timers, harnessVars, restOfPage>>

-----------------------------------------------------------------------------
(* Submission *)

\* contactForm.addEventListener('submit', ...)
Submit ==
    /\ setDom(validateForm(currentDom))
    /\ IF ~isFormValid(currentDom)
         THEN /\ lastEvent' = event("submitRejected", 0, TRUE)
              /\ UNCHANGED <<buttonDisabled, buttonHTML, timers>>
         ELSE /\ Len(timers) < MaxTimers
              /\ buttonDisabled' = TRUE
              /\ buttonHTML' = LOADING_LABEL
              /\ timers' = Append(timers, submissionTimer(freshId, buttonHTML))
              /\ lastEvent' = event("submitAccepted", freshId, TRUE)
    /\ UNCHANGED <<parentOf, formMsgs, harnessVars, restOfPage>>

\* a handler that leaves the existing message in place
keepExistingMessage(msgs) == msgs

\* const existingMessage = form.querySelector('.form-message');
\* if (existingMessage) existingMessage.remove();
removeExistingMessage(msgs) == IF msgs # <<>> THEN Tail(msgs) ELSE msgs

\* form.insertBefore(message, form.firstChild)
insertMessage(msgs, m) == <<m>> \o msgs

\* a handleFormSuccess that resets the fields and leaves the error state
handleFormSuccessKeepingErrors(originalButtonText, otherTimers) ==
    LET id == freshId
    IN  /\ formMsgs' = insertMessage(removeExistingMessage(formMsgs),
                                     [id |-> id, kind |-> "success"])
        /\ value' = defaultValue
        /\ checked' = defaultChecked
        /\ UNCHANGED <<errorClass, errorMsgs>>
        /\ buttonDisabled' = FALSE
        /\ buttonHTML' = originalButtonText
        /\ timers' = Append(otherTimers, removalTimer(id))

\* handleFormSuccess(form, submitButton, originalButtonText)
handleFormSuccess(originalButtonText, otherTimers) ==
    LET id == freshId
    IN  /\ formMsgs' = insertMessage(removeExistingMessage(formMsgs),
                                     [id |-> id, kind |-> "success"])
        /\ value' = defaultValue
        /\ checked' = defaultChecked
        /\ errorClass' = [f \in FieldIds |-> FALSE]
        /\ errorMsgs' = [p \in Parents |-> <<>>]
        /\ buttonDisabled' = FALSE
        /\ buttonHTML' = originalButtonText
        /\ timers' = Append(otherTimers, removalTimer(id))

\* the 2000 ms timer of a submission fires
SubmissionDone(i) ==
    /\ timers[i].kind = "submission"
    /\ isDue(i)
    /\ handleFormSuccess(timers[i].originalButtonText, withoutTimer(i))
    /\ lastEvent' = event("success", timers[i].id, FALSE)
    /\ UNCHANGED <<parentOf, harnessVars, restOfPage>>

\* handleFormError(form, submitButton, originalButtonText, errorMsg)
handleFormError(originalButtonText, otherTimers) ==
    LET id == freshId
    IN  /\ formMsgs' = insertMessage(removeExistingMessage(formMsgs),
                                     [id |-> id, kind |-> "error"])
        /\ buttonDisabled' = FALSE
        /\ buttonHTML' = originalButtonText
        /\ timers' = Append(otherTimers, removalTimer(id))
        /\ UNCHANGED <<value, checked, errorClass, errorMsgs>>

\* a failure path calls handleFormError for the form
SubmissionFailed(originalButtonText) ==
    /\ Len(timers) < MaxTimers
    /\ handleFormError(originalButtonText, timers)
    /\ lastEvent' = event("failure", 0, FALSE)
    /\ UNCHANGED <<parentOf, harnessVars, restOfPage>>

\* a timer that removes whatever form message is shown
removeShownMessage(msgs, id) == IF msgs # <<>> THEN Tail(msgs) ELSE msgs

\* if (message.parentNode) message.remove()
removeMessage(msgs, id) == SelectSeq(msgs, LAMBDA m : m.id # id)

\* the 8000 ms timer of a form message fires
RemoveMessage(i) ==
    /\ timers[i].kind = "removeMessage"
    /\ isDue(i)
    /\ formMsgs' = removeMessage(formMsgs, timers[i].id)
    /\ timers' = withoutTimer(i)
    /\ lastEvent' = event("removed", timers[i].id, FALSE)
    /\ UNCHANGED <<parentOf, value, checked, errorClass, errorMsgs,
                   buttonDisabled, buttonHTML, harnessVars, restOfPage>>

\* TickMs of time pass; a due timer runs first
Tick ==
    /\ timers # <<>>
    /\ \A i \in TimerIndices : timers[i].remaining >= TickMs
    /\ timers' = [i \in TimerIndices |-> [timers[i] EXCEPT !.remaining = @ - TickMs]]
    /\ lastEvent' = event("tick", 0, FALSE)
    /\ UNCHANGED <<parentOf, value, checked, errorClass, errorMsgs, formMsgs,
                   buttonDisabled, buttonHTML, harnessVars, restOfPage>>

-----------------------------------------------------------------------------
(* The page after DOMContentLoaded *)

\* validateField has not been called yet
NotCalled == [called |-> FALSE, isValid |-> TRUE, errorMessage |-> ""]

NoField == [type |-> "text", name |-> "name", tagName |-> "input",
            required |-> FALSE, value |-> <<>>, checked |-> FALSE]

InitForm ==
    /\ parentOf \in Layouts
    /\ value = defaultValue
    /\ checked = defaultChecked
    /\ errorClass = [f \in FieldIds |-> FALSE]
    /\ errorMsgs = [p \in Parents |-> <<>>]
    /\ formMsgs = <<>>
    /\ buttonDisabled = FALSE
    /\ buttonHTML = ORIGINAL_LABEL
    /\ timers = <<>>
    /\ lastEvent = event("load", 0, FALSE)

InitNotify ==
    /\ notifications = <<>>
    /\ noteTimers = <<>>

\* the page delivers the menu hidden, the button labelled 'Menü öffnen'
InitMenu ==
    /\ menuHidden = TRUE
    /\ ariaLabel = "Menü öffnen"
    /\ bodyOverflow = ""
    /\ isAnimating = FALSE
    /\ menuTimers = <<>>
    /\ userIdle = FALSE

\* statNumbers: the '.stat-number[data-count]' elements, by index
NumCounters == 3
Counters == 0..(NumCounters - 1)

\* the page before initStatisticsCounters has run
InitCounters ==
    /\ hasObserver \in BOOLEAN
    /\ countersReady = FALSE
    /\ hasAnimated = FALSE
    /\ observing = FALSE
    /\ inView \in BOOLEAN
    /\ ticking = FALSE
    /\ counterTimers = <<>>
    /\ started = [c \in Counters |-> 0]
    /\ triggered = 0

\* no '#charter-form' in the document
InitCharter ==
    /\ emailValue = <<>>
    /\ emailError = FALSE
    /\ charterReady = FALSE
    /\ submits = 0

\* the page at the top, the button created with the class 'opacity-0'
InitScrollToTop ==
    /\ pageYOffset = 0
    /\ isVisible = FALSE
    /\ scrollButtonOpacity = ""
    /\ scrollTicking = FALSE
    /\ pendingFrames = 0
    /\ scrolled = FALSE
    /\ smoothScrolling = FALSE

NumImages == 2
ImageIds == 1..NumImages

\* an img element as the page delivers it: with a data-src attribute or not,
\* with a src attribute (for a data-src image, a placeholder) or not
imgElement(hasDataSrc, hasSrc) ==
    [lazy |-> hasDataSrc,          \* the markup carried data-src (fixed)
     placeholder |-> hasDataSrc /\ hasSrc, \* and a placeholder src with it (fixed)
     dataSrc |-> hasDataSrc,       \* img.dataset.src is set
     src |-> IF ~hasSrc THEN "" ELSE IF hasDataSrc THEN "placeholder" ELSE "own",
     observedBy |-> {},            \* the observers the element is observed by
     probe |-> "",                 \* source of the new Image() of loadImage, "" if none
     requested |-> FALSE,          \* the source named by data-src was requested
     reported |-> FALSE,           \* an observer reported the element as intersecting
     inDocument |-> TRUE]

\* 'img[src], img[data-src]'
MarkupImages == { imgElement(d, sr) : d \in BOOLEAN, sr \in BOOLEAN } \ { imgElement(FALSE, FALSE) }

InitImages ==
    /\ images \in [ImageIds -> MarkupImages]
    /\ mainLazyReady = FALSE
    /\ loaderLazyReady = FALSE

\* a page without deferred images
PlainImages == images = [i \in ImageIds |-> imgElement(FALSE, TRUE)]

\* null, and a parsed JSON document, as this.imageManifest holds them
NULL == [isNull |-> TRUE, entries |-> {}]
document(entries) == [isNull |-> FALSE, entries |-> entries]

NoCall == [called |-> FALSE]

\* new ImageLoader(): the constructor has called init(), which awaits checkWebPSupport()
InitLoader ==
    /\ loaderPhase = "checkingWebP"
    /\ supportsWebP = "null"
    /\ imageManifest = NULL
    /\ manifestFetches = 0
    /\ manifestResponse = "none"
    /\ lastCall = NoCall

NotAnswered == [answered |-> FALSE]

NoBody == [name |-> <<>>, email |-> <<>>, courseInterest |-> <<>>, website |-> <<>>]

NoRequest == [endpoint |-> "", method |-> "", parsed |-> FALSE, body |-> NoBody]

\* no request has reached an endpoint
InitEndpoint ==
    /\ request = NoRequest
    /\ response = NotAnswered

InitLater ==
    InitCharter /\ InitScrollToTop /\ InitImages /\ PlainImages /\ InitLoader /\ InitEndpoint

\* the other pages: the counters play no part
NoCounters ==
    /\ hasObserver = TRUE
    /\ inView = FALSE

Init ==
    /\ InitForm
    /\ vfField = NoField
    /\ vfResult = NotCalled
    /\ InitNotify
    /\ InitMenu
    /\ InitCounters
    /\ NoCounters
    /\ InitLater

Next ==
    \/ \E f \in FieldIds : \E v \in Typed(f) \cup {<<>>} : Input(f, v)
    \/ \E f \in FieldIds : Blur(f)
    \/ \E f \in FieldIds : Toggle(f)
    \/ Submit
    \/ \E i \in TimerIndices : SubmissionDone(i)
    \/ \E i \in TimerIndices : RemoveMessage(i)
    \/ Tick

Spec == Init /\ [][Next]_vars

\* the page with a failure path that calls handleFormError
NextPresenter ==
    \/ Next
    \/ \E text \in {ORIGINAL_LABEL, LOADING_LABEL} : SubmissionFailed(text)

SpecPresenter == Init /\ [][NextPresenter]_vars

\* the event loop runs every due timer, and time passes
Fairness ==
    /\ WF_vars(Tick)
    /\ WF_vars(\E i \in TimerIndices : SubmissionDone(i))
    /\ WF_vars(\E i \in TimerIndices : RemoveMessage(i))

SpecLive == Init /\ [][Next]_vars /\ Fairness

-----------------------------------------------------------------------------
(* showNotification: the page-scoped notification and its timers *)

ANIMATE_IN_DELAY == 100
NOTIFICATION_LIFETIME == 5000
SLIDE_OUT_DELAY == 300
NoteTickMs == 100

\* the types showNotification is called with
NotificationTypes == {"success", "error"}

NoteIndices == 1..Len(notifications)
NoteTimerIndices == 1..Len(noteTimers)

\* the notification elements some pending callback still refers to
pendingNotes == { noteTimers[i].id : i \in NoteTimerIndices }

usedNoteIds == pendingNotes \cup { notifications[i].id : i \in NoteIndices }
freshNoteId == CHOOSE n \in 0..Cardinality(usedNoteIds) : n \notin usedNoteIds

noteTimer(kind, id, delay) == [kind |-> kind, id |-> id, remaining |-> delay]

withoutNoteTimer(i) ==
    SubSeq(noteTimers, 1, i - 1) \o SubSeq(noteTimers, i + 1, Len(noteTimers))

\* timer i is due, and no timer of the same delay set before it is still waiting
isNoteDue(i) ==
    /\ noteTimers[i].remaining = 0
    /\ \A j \in 1..(i - 1) : noteTimers[j].kind # noteTimers[i].kind

\* a showNotification that leaves the existing notifications in place
keepExistingNotifications(notes) == notes

\* existingNotifications.forEach(notification => notification.remove())
removeExistingNotifications(notes) == <<>>

\* a callback that looks the notification up in the document again
setTransformOfShown(notes, id, t) ==
    [i \in 1..Len(notes) |-> [notes[i] EXCEPT !.transform = t]]

\* notification.style.transform = t, seen in the document if the element is there
setTransform(notes, id, t) ==
    [i \in 1..Len(notes) |->
        IF notes[i].id = id THEN [notes[i] EXCEPT !.transform = t] ELSE notes[i]]

\* the notifications and their timers as showNotification reads and writes them
currentNotes == [notes |-> notifications, timers |-> noteTimers]

\* showNotification(message, type)
showNotification(n, type) ==
    LET id == freshNoteId
    IN  [notes |-> Append(removeExistingNotifications(n.notes),
                          [id |-> id, type |-> type, transform |-> "translate-x-full",
                           shownFor |-> 0]),
         timers |-> n.timers \o << noteTimer("animateIn", id, ANIMATE_IN_DELAY),
                                   noteTimer("autoRemove", id, NOTIFICATION_LIFETIME) >>]

\* a call of showNotification
ShowNotification(type) ==
    /\ Cardinality(pendingNotes) < MaxNotes
    /\ notifications' = showNotification(currentNotes, type).notes
    /\ noteTimers' = showNotification(currentNotes, type).timers
    /\ lastEvent' = event("show", freshNoteId, FALSE)
    /\ UNCHANGED outsideNotify

\* the close button: onclick="this.parentElement.parentElement.parentElement.remove()"
Dismiss(i) ==
    /\ notifications' = SubSeq(notifications, 1, i - 1)
                            \o SubSeq(notifications, i + 1, Len(notifications))
    /\ lastEvent' = event("dismiss", notifications[i].id, FALSE)
    /\ UNCHANGED <<noteTimers, outsideNotify>>

\* setTimeout(() => { notification.style.transform = 'translateX(0)'; }, 100)
AnimateIn(i) ==
    /\ noteTimers[i].kind = "animateIn"
    /\ isNoteDue(i)
    /\ notifications' = setTransform(notifications, noteTimers[i].id, "translateX(0)")
    /\ noteTimers' = withoutNoteTimer(i)
    /\ lastEvent' = event("animateIn", noteTimers[i].id, FALSE)
    /\ UNCHANGED outsideNotify

\* a 5000 ms callback that removes the element at once
autoRemoveAtOnce(notes, timersLeft, id) ==
    [notes |-> SelectSeq(notes, LAMBDA n : n.id # id), timers |-> timersLeft]

\* setTimeout(() => { notification.style.transform = 'translateX(full)';
\*                    setTimeout(..., 300); }, 5000)
autoRemove(notes, timersLeft, id) ==
    [notes |-> setTransform(notes, id, "translateX(full)"),
     timers |-> Append(timersLeft, noteTimer("remove", id, SLIDE_OUT_DELAY))]

\* the 5000 ms timer of a notification fires
AutoRemove(i) ==
    LET r == autoRemove(notifications, withoutNoteTimer(i), noteTimers[i].id)
    IN  /\ noteTimers[i].kind = "autoRemove"
        /\ isNoteDue(i)
        /\ notifications' = r.notes
        /\ noteTimers' = r.timers
        /\ lastEvent' = event("autoRemove", noteTimers[i].id, FALSE)
        /\ UNCHANGED outsideNotify

\* setTimeout(() => { if (notification.parentNode) notification.remove(); }, 300)
RemoveNotification(i) ==
    /\ noteTimers[i].kind = "remove"
    /\ isNoteDue(i)
    /\ notifications' = SelectSeq(notifications, LAMBDA n : n.id # noteTimers[i].id)
    /\ noteTimers' = withoutNoteTimer(i)
    /\ lastEvent' = event("removeNotification", noteTimers[i].id, FALSE)
    /\ UNCHANGED outsideNotify

\* NoteTickMs of time pass; a due timer runs first
NoteTick ==
    /\ noteTimers # <<>>
    /\ \A i \in NoteTimerIndices : noteTimers[i].remaining >= NoteTickMs
    /\ noteTimers' = [i \in NoteTimerIndices |->
                         [noteTimers[i] EXCEPT !.remaining = @ - NoteTickMs]]
    /\ notifications' = [i \in NoteIndices |->
                            [notifications[i] EXCEPT !.shownFor = @ + NoteTickMs]]
    /\ lastEvent' = event("noteTick", 0, FALSE)
    /\ UNCHANGED outsideNotify

NextNotify ==
    \/ \E type \in NotificationTypes : ShowNotification(type)
    \/ \E i \in NoteIndices : Dismiss(i)
    \/ \E i \in NoteTimerIndices : AnimateIn(i)
    \/ \E i \in NoteTimerIndices : AutoRemove(i)
    \/ \E i \in NoteTimerIndices : RemoveNotification(i)
    \/ NoteTick

InitNotifyPage == Init /\ parentOf = [f \in FieldIds |-> f]

SpecNotify == InitNotifyPage /\ [][NextNotify]_vars

-----------------------------------------------------------------------------
(* initMobileMenu: the menu, its button and their timers.  The styles of the
   menu and of its items and the icon of the button are left out. *)

OPEN_DURATION == 400
CLOSE_DURATION == 300
LINK_CLICK_DELAY == 150
MOBILE_BREAKPOINT == 768
MenuTickMs == 50

\* window.innerWidth after a resize
Widths == {MOBILE_BREAKPOINT - 1, MOBILE_BREAKPOINT}

MenuTimerIndices == 1..Len(menuTimers)

menuTimer(kind, delay) == [kind |-> kind, remaining |-> delay]

\* the menu as the functions of initMobileMenu read and write it
currentMenu == [hidden |-> menuHidden, ariaLabel |-> ariaLabel,
                bodyOverflow |-> bodyOverflow, isAnimating |-> isAnimating,
                timers |-> menuTimers]

setMenu(m) ==
    /\ menuHidden' = m.hidden
    /\ ariaLabel' = m.ariaLabel
    /\ bodyOverflow' = m.bodyOverflow
    /\ isAnimating' = m.isAnimating
    /\ menuTimers' = m.timers

\* openMobileMenu()
openMobileMenu(m) ==
    [m EXCEPT !.hidden = FALSE,
              !.ariaLabel = "Menü schließen",
              !.bodyOverflow = "hidden",
              !.timers = Append(@, menuTimer("openDone", OPEN_DURATION))]

\* a closeMobileMenu that leaves the body scroll locked
closeMobileMenuKeepingLock(m) ==
    [m EXCEPT !.ariaLabel = "Menü öffnen",
              !.timers = Append(@, menuTimer("closeDone", CLOSE_DURATION))]

\* closeMobileMenu()
closeMobileMenu(m) ==
    [m EXCEPT !.ariaLabel = "Menü öffnen",
              !.timers = Append(@, menuTimer("closeDone", CLOSE_DURATION)),
              !.bodyOverflow = ""]

\* toggleMobileMenu()
toggleMobileMenu(m) ==
    IF m.isAnimating THEN m
    ELSE IF ~m.hidden
        THEN closeMobileMenu([m EXCEPT !.isAnimating = TRUE])
        ELSE openMobileMenu([m EXCEPT !.isAnimating = TRUE])

\* the listeners that close an open menu: outside click, Escape, resize
closeIfOpen(m) == IF ~m.hidden THEN closeMobileMenu(m) ELSE m

\* the click listener of initSmoothScrolling on an anchor link
smoothScrollClick(m) ==
    IF ~m.hidden THEN [m EXCEPT !.hidden = TRUE, !.ariaLabel = "Menü öffnen"] ELSE m

\* the handler may set one more timer
roomForTimer == Len(menuTimers) < MaxMenuTimers

\* mobileMenuButton.addEventListener('click', toggleMobileMenu)
ButtonClick ==
    /\ ~userIdle
    /\ isAnimating \/ roomForTimer
    /\ setMenu(toggleMobileMenu(currentMenu))
    /\ lastEvent' = event("menuClick", 0, ~isAnimating)
    /\ UNCHANGED <<userIdle, outsideMenu>>

\* a click on a link of the menu; an anchor link also runs the smooth-scroll listener
LinkClick(anchor) ==
    /\ ~userIdle
    /\ ~menuHidden
    /\ roomForTimer
    /\ setMenu(LET m == [currentMenu EXCEPT
                            !.timers = Append(@, menuTimer("linkClose", LINK_CLICK_DELAY))]
               IN  IF anchor THEN smoothScrollClick(m) ELSE m)
    /\ lastEvent' = event("linkClick", 0, TRUE)
    /\ UNCHANGED <<userIdle, outsideMenu>>

\* a click on an anchor link outside the menu and the button: the smooth-scroll
\* listener of the link runs first, the document listener of the menu after it
AnchorClick ==
    /\ ~userIdle
    /\ setMenu(closeIfOpen(smoothScrollClick(currentMenu)))
    /\ lastEvent' = event("anchorClick", 0, ~menuHidden)
    /\ UNCHANGED <<userIdle, outsideMenu>>

\* document.addEventListener('click', ...) for a click outside menu and button
OutsideClick ==
    /\ ~userIdle
    /\ menuHidden \/ roomForTimer
    /\ setMenu(closeIfOpen(currentMenu))
    /\ lastEvent' = event("outsideClick", 0, ~menuHidden)
    /\ UNCHANGED <<userIdle, outsideMenu>>

\* document.addEventListener('keydown', ...) with event.key === 'Escape'
EscapeKey ==
    /\ ~userIdle
    /\ menuHidden \/ roomForTimer
    /\ setMenu(closeIfOpen(currentMenu))
    /\ lastEvent' = event("escape", 0, ~menuHidden)
    /\ UNCHANGED <<userIdle, outsideMenu>>

\* window.addEventListener('resize', ...)
Resize(width) ==
    /\ ~userIdle
    /\ menuHidden \/ roomForTimer
    /\ setMenu(IF width >= MOBILE_BREAKPOINT THEN closeIfOpen(currentMenu) ELSE currentMenu)
    /\ lastEvent' = event("resize", 0, width >= MOBILE_BREAKPOINT /\ ~menuHidden)
    /\ UNCHANGED <<userIdle, outsideMenu>>

\* the visitor stops: no click, key press or resize follows
UserLeaves ==
    /\ ~userIdle
    /\ userIdle' = TRUE
    /\ UNCHANGED <<menuHidden, ariaLabel, bodyOverflow, isAnimating, menuTimers,
                   lastEvent, outsideMenu>>

menuTimersLeft(i) ==
    SubSeq(menuTimers, 1, i - 1) \o SubSeq(menuTimers, i + 1, Len(menuTimers))

\* timer i is due, and no timer of the same delay set before it is still waiting
isMenuTimerDue(i) ==
    /\ menuTimers[i].remaining = 0
    /\ \A j \in 1..(i - 1) : menuTimers[j].kind # menuTimers[i].kind

\* setTimeout(() => { isAnimating = false; }, 400) of openMobileMenu
OpenDone(i) ==
    /\ menuTimers[i].kind = "openDone"
    /\ isMenuTimerDue(i)
    /\ setMenu([currentMenu EXCEPT !.isAnimating = FALSE, !.timers = menuTimersLeft(i)])
    /\ lastEvent' = event("openDone", 0, FALSE)
    /\ UNCHANGED <<userIdle, outsideMenu>>

\* setTimeout(() => { mobileMenu.classList.add('hidden'); ... isAnimating = false; }, 300)
CloseDone(i) ==
    /\ menuTimers[i].kind = "closeDone"
    /\ isMenuTimerDue(i)
    /\ setMenu([currentMenu EXCEPT !.hidden = TRUE, !.isAnimating = FALSE,
                                   !.timers = menuTimersLeft(i)])
    /\ lastEvent' = event("closeDone", 0, FALSE)
    /\ UNCHANGED <<userIdle, outsideMenu>>

\* setTimeout(() => { this.style.transform = ''; closeMobileMenu(); }, 150) of a link
LinkClose(i) ==
    /\ menuTimers[i].kind = "linkClose"
    /\ isMenuTimerDue(i)
    /\ setMenu(closeMobileMenu([currentMenu EXCEPT !.timers = menuTimersLeft(i)]))
    /\ lastEvent' = event("linkClose", 0, FALSE)
    /\ UNCHANGED <<userIdle, outsideMenu>>

\* MenuTickMs of time pass; a due timer runs first
MenuTick ==
    /\ menuTimers # <<>>
    /\ \A i \in MenuTimerIndices : menuTimers[i].remaining >= MenuTickMs
    /\ menuTimers' = [i \in MenuTimerIndices |->
                         [menuTimers[i] EXCEPT !.remaining = @ - MenuTickMs]]
    /\ lastEvent' = event("menuTick", 0, FALSE)
    /\ UNCHANGED <<menuHidden, ariaLabel, bodyOverflow, isAnimating, userIdle, outsideMenu>>

NextMenu ==
    \/ ButtonClick
    \/ \E anchor \in BOOLEAN : LinkClick(anchor)
    \/ AnchorClick
    \/ OutsideClick
    \/ EscapeKey
    \/ \E width \in Widths : Resize(width)
    \/ UserLeaves
    \/ \E i \in MenuTimerIndices : OpenDone(i)
    \/ \E i \in MenuTimerIndices : CloseDone(i)
    \/ \E i \in MenuTimerIndices : LinkClose(i)
    \/ MenuTick

InitMenuPage == Init /\ parentOf = [f \in FieldIds |-> f]

SpecMenu == InitMenuPage /\ [][NextMenu]_vars

\* the event loop runs every due timer, and time passes
MenuFairness ==
    /\ WF_vars(MenuTick)
    /\ WF_vars(\E i \in MenuTimerIndices : OpenDone(i))
    /\ WF_vars(\E i \in MenuTimerIndices : CloseDone(i))
    /\ WF_vars(\E i \in MenuTimerIndices : LinkClose(i))

SpecMenuLive == InitMenuPage /\ [][NextMenu]_vars /\ MenuFairness

-----------------------------------------------------------------------------
(* initStatisticsCounters: the trigger of the counter animations, through the
   IntersectionObserver or through the throttled scroll listener.  The course
   of one animation (animateCounter) is left out; its start is counted. *)

STAGGER_DELAY == 200
ENTRANCE_DELAY == 100
CounterTickMs == 100

CounterTimerIndices == 1..Len(counterTimers)

counterTimer(kind, c, delay) == [kind |-> kind, counter |-> c, remaining |-> delay]

\* the counters as the functions of initStatisticsCounters read and write them
currentCounters == [hasAnimated |-> hasAnimated, observing |-> observing,
                    timers |-> counterTimers, triggered |-> triggered]

setCounters(s) ==
    /\ hasAnimated' = s.hasAnimated
    /\ observing' = s.observing
    /\ counterTimers' = s.timers
    /\ triggered' = s.triggered

\* statNumbers.forEach((element, index) => setTimeout(..., index * 200))
staggeredTimers(kind) == [k \in 1..NumCounters |-> counterTimer(kind, k - 1, (k - 1) * STAGGER_DELAY)]

\* the body of the observer callback for one entry
observeEntry(s, isIntersecting) ==
    IF isIntersecting /\ ~s.hasAnimated
        THEN [s EXCEPT !.hasAnimated = TRUE,
                       !.timers = @ \o staggeredTimers("entrance"),
                       !.observing = FALSE,
                       !.triggered = @ + 1]
        ELSE s

RECURSIVE observeEntries(_, _)
observeEntries(s, entries) ==
    IF entries = <<>> THEN s
    ELSE observeEntries(observeEntry(s, Head(entries)), Tail(entries))

\* checkStatisticsInView without the 'if (hasAnimated) return'
checkStatisticsInViewAgain(s, isInView) ==
    IF isInView
        THEN [s EXCEPT !.hasAnimated = TRUE,
                       !.timers = @ \o staggeredTimers("animate"),
                       !.triggered = @ + 1]
        ELSE s

\* checkStatisticsInView()
checkStatisticsInView(s, isInView) ==
    IF s.hasAnimated THEN s
    ELSE IF isInView
        THEN [s EXCEPT !.hasAnimated = TRUE,
                       !.timers = @ \o staggeredTimers("animate"),
                       !.triggered = @ + 1]
        ELSE s

\* initStatisticsCounters(): initCounterObserver() or, without
\* IntersectionObserver, initScrollBasedCounters()
InitStatisticsCounters ==
    /\ ~countersReady
    /\ countersReady' = TRUE
    /\ IF hasObserver
         THEN setCounters([currentCounters EXCEPT !.observing = TRUE])
         ELSE setCounters(checkStatisticsInView(currentCounters, inView))
    /\ lastEvent' = event("initCounters", 0, FALSE)
    /\ UNCHANGED <<hasObserver, inView, ticking, started, outsideCounters>>

\* the sequences of isIntersecting values one callback may receive
EntryLists == UNION { [1..k -> BOOLEAN] : k \in 1..MaxEntries }

\* the IntersectionObserver calls back with the entries of '.stats-grid'
Intersection(entries) ==
    /\ countersReady
    /\ observing
    /\ setCounters(observeEntries(currentCounters, entries))
    /\ inView' = entries[Len(entries)]
    /\ lastEvent' = event("intersection", 0, FALSE)
    /\ UNCHANGED <<hasObserver, countersReady, ticking, started, outsideCounters>>

\* the page is scrolled: handleScroll of the fallback, if it is registered
Scroll(nowInView) ==
    /\ countersReady
    /\ inView' = nowInView
    /\ ticking' = IF ~hasObserver THEN TRUE ELSE ticking
    /\ lastEvent' = event("scroll", 0, ~hasObserver /\ ~ticking)
    /\ UNCHANGED <<hasObserver, countersReady, hasAnimated, observing, counterTimers,
                   started, triggered, outsideCounters>>

\* requestAnimationFrame(() => { checkStatisticsInView(); ticking = false; })
ScrollFrame ==
    /\ ticking
    /\ setCounters(checkStatisticsInView(currentCounters, inView))
    /\ ticking' = FALSE
    /\ lastEvent' = event("scrollFrame", 0, FALSE)
    /\ UNCHANGED <<hasObserver, countersReady, inView, started, outsideCounters>>

counterTimersLeft(i) ==
    SubSeq(counterTimers, 1, i - 1) \o SubSeq(counterTimers, i + 1, Len(counterTimers))

\* timer i is due, and no timer of the same kind set before it is still waiting
isCounterTimerDue(i) ==
    /\ counterTimers[i].remaining = 0
    /\ \A j \in 1..(i - 1) : counterTimers[j].kind # counterTimers[i].kind

\* observer path: the staggered callback sets the entrance styles and
\* setTimeout(() => { ...; animateCounter(element, target); }, 100)
Entrance(i) ==
    /\ counterTimers[i].kind = "entrance"
    /\ isCounterTimerDue(i)
    /\ counterTimers' = Append(counterTimersLeft(i),
                               counterTimer("animate", counterTimers[i].counter, ENTRANCE_DELAY))
    /\ lastEvent' = event("entrance", counterTimers[i].counter, FALSE)
    /\ UNCHANGED <<hasObserver, countersReady, hasAnimated, observing, inView, ticking,
                   started, triggered, outsideCounters>>

\* animateCounter(element, target) is called
AnimateCounter(i) ==
    /\ counterTimers[i].kind = "animate"
    /\ isCounterTimerDue(i)
    /\ counterTimers' = counterTimersLeft(i)
    /\ started' = [started EXCEPT ![counterTimers[i].counter] = @ + 1]
    /\ lastEvent' = event("animateCounter", counterTimers[i].counter, FALSE)
    /\ UNCHANGED <<hasObserver, countersReady, hasAnimated, observing, inView, ticking,
                   triggered, outsideCounters>>

\* CounterTickMs of time pass; a due timer runs first
CounterTick ==
    /\ counterTimers # <<>>
    /\ \A i \in CounterTimerIndices : counterTimers[i].remaining >= CounterTickMs
    /\ counterTimers' = [i \in CounterTimerIndices |->
                            [counterTimers[i] EXCEPT !.remaining = @ - CounterTickMs]]
    /\ lastEvent' = event("counterTick", 0, FALSE)
    /\ UNCHANGED <<hasObserver, countersReady, hasAnimated, observing, inView, ticking,
                   started, triggered, outsideCounters>>

NextCounters ==
    \/ InitStatisticsCounters
    \/ \E entries \in EntryLists : Intersection(entries)
    \/ \E nowInView \in BOOLEAN : Scroll(nowInView)
    \/ ScrollFrame
    \/ \E i \in CounterTimerIndices : Entrance(i)
    \/ \E i \in CounterTimerIndices : AnimateCounter(i)
    \/ CounterTick

InitCountersPage ==
    /\ InitForm
    /\ parentOf = [f \in FieldIds |-> f]
    /\ vfField = NoField
    /\ vfResult = NotCalled
    /\ InitNotify
    /\ InitMenu
    /\ InitCounters
    /\ InitLater

SpecCounters == InitCountersPage /\ [][NextCounters]_vars

-----------------------------------------------------------------------------
(* validateField called on one field object *)

HarnessAlphabet == {"a", "@", ".", " "}

Strings(n) == UNION { [1..k -> HarnessAlphabet] : k \in 0..n }

\* type, name and tagName of the fields a form of the site carries
FieldKinds == {
    [type |-> "text",       name |-> "name",    tagName |-> "input"],
    [type |-> "email",      name |-> "email",   tagName |-> "input"],
    [type |-> "tel",        name |-> "phone",   tagName |-> "input"],
    [type |-> "select-one", name |-> "course",  tagName |-> "select"],
    [type |-> "textarea",   name |-> "message", tagName |-> "textarea"],
    [type |-> "checkbox",   name |-> "privacy", tagName |-> "input"],
    [type |-> "text",       name |-> "website", tagName |-> "input"] }

\* messages around the two length limits, bare and padded with whitespace
Repeat(c, n) == [k \in 1..n |-> c]

LimitLengths == { MIN_MESSAGE_LENGTH - 1, MIN_MESSAGE_LENGTH, MIN_MESSAGE_LENGTH + 1,
                  MAX_MESSAGE_LENGTH - 1, MAX_MESSAGE_LENGTH, MAX_MESSAGE_LENGTH + 1 }

MessageValues ==
    { pre \o Repeat("a", n) \o post :
          n \in LimitLengths, pre \in {<<>>, <<" ">>}, post \in {<<>>, <<" ", " ">>} }

\* names of at most 3 characters: letters, a German letter, a hyphen, a digit
NameAlphabet == {"a", "Z", "ß", "-", "1"}

NameValues == UNION { [1..k -> NameAlphabet] : k \in 0..3 }

\* phone numbers of 6 to 10 characters around a body of 6 allowed characters
PhonePadAlphabet == {"+", "1", "a"}

PhonePads == UNION { [1..k -> PhonePadAlphabet] : k \in 0..2 }

PhoneBody == <<"0", " ", "-", "(", ")", ".">>

PhoneValues == { pre \o PhoneBody \o post : pre \in PhonePads, post \in PhonePads }

\* the values tried for a kind of field beyond Strings(MaxLen)
ExtraValues(k) ==
    CASE k.name = "message" -> MessageValues
      [] k.name = "name" -> NameValues
      [] k.type = "tel" -> PhoneValues
      [] OTHER -> {}

HarnessFields ==
    { [type |-> k.type, name |-> k.name, tagName |-> k.tagName,
       required |-> r, value |-> v, checked |-> c] :
          k \in FieldKinds, r \in BOOLEAN, v \in Strings(MaxLen), c \in {FALSE} }
    \cup
    { [type |-> "checkbox", name |-> "privacy", tagName |-> "input",
       required |-> r, value |-> v, checked |-> TRUE] :
          r \in BOOLEAN, v \in Strings(1) }
    \cup
    UNION { { [type |-> k.type, name |-> k.name, tagName |-> k.tagName,
               required |-> r, value |-> v, checked |-> FALSE] :
                  r \in BOOLEAN, v \in ExtraValues(k) } : k \in FieldKinds }

InitValidate ==
    /\ InitForm
    /\ parentOf = [f \in FieldIds |-> f]
    /\ vfField \in HarnessFields
    /\ vfResult = NotCalled
    /\ InitNotify
    /\ InitMenu
    /\ InitCounters
    /\ NoCounters
    /\ InitLater

\* validateField(vfField)
CallValidateField ==
    /\ ~vfResult.called
    /\ vfResult' = [called |-> TRUE,
                    isValid |-> validation(vfField).isValid,
                    errorMessage |-> validation(vfField).errorMessage]
    /\ UNCHANGED <<formVars, vfField, restOfPage>>

NextValidate == CallValidateField

SpecValidate == InitValidate /\ [][NextValidate]_vars

-----------------------------------------------------------------------------
(* A page whose first form is '#charter-form': initContactForm and
   initCharterInquiry both listen to its submit event.  Beyond Fields the
   form carries an e-mail input, in a wrapper of its own. *)

MaxSharedTimers == 3
MaxSubmits == 2

EmailField == [type |-> "email", name |-> "email", tagName |-> "input", required |-> TRUE]

\* what the user may type into the fields of this form
EmailTyped == { <<"a", "@", "a", ".", "a">> }
NameTyped == { <<"A", "l">>, <<"A">> }

\* submitButton.innerHTML while the charter handler waits
CHARTER_LOADING_LABEL == "<svg class='animate-spin w-5 h-5 mr-2'> Wird gesendet..."

CHARTER_DELAY == 2000

emailObject(v) ==
    [type |-> EmailField.type, name |-> EmailField.name, tagName |-> EmailField.tagName,
     required |-> EmailField.required, value |-> v, checked |-> FALSE]

fieldNamed(n) == CHOOSE f \in FieldIds : Fields[f].name = n

\* setTimeout(() => { ... }, 2000) of the charter handler
charterTimer(originalText) ==
    [kind |-> "charter", id |-> 0, remaining |-> CHARTER_DELAY,
     originalButtonText |-> originalText]

\* validateForm(this) on all inputs of the form, the e-mail input included
sharedFormValid ==
    isFormValid(currentDom) /\ validation(emailObject(emailValue)).isValid

\* the checks of the charter handler on the FormData: "" if they pass, else
\* the type of the notification shown
charterCheck(val, email, chk) ==
    IF val[fieldNamed("name")] = <<>> \/ email = <<>> THEN "error"
    ELSE IF ~emailRegex(email) THEN "error"
    ELSE IF ~chk[fieldNamed("privacy")] THEN "error"
    ELSE ""

\* the charter handler goes on to its loading state
charterAccepts(val, email, chk) == charterCheck(val, email, chk) = ""

\* requestIdleCallback(() => initCharterInquiry()) or setTimeout(..., 100)
InitCharterInquiry ==
    /\ ~charterReady
    /\ charterReady' = TRUE
    /\ lastEvent' = event("initCharterInquiry", 0, FALSE)
    /\ UNCHANGED <<formState, emailValue, emailError, submits, notifyVars, outsideCharter>>

\* the user edits the e-mail input: the value changes, then 'input' is dispatched
InputEmail(v) ==
    /\ v # emailValue
    /\ emailValue' = v
    /\ emailError' = (emailError /\ ~validation(emailObject(v)).isValid)
    /\ lastEvent' = event("inputEmail", 0, emailError)
    /\ UNCHANGED <<formState, charterReady, submits, notifyVars, outsideCharter>>

\* one submit event: the listener of initContactForm runs, then, once it is
\* registered, the listener of initCharterInquiry
SharedSubmit ==
    LET contactAccepts == sharedFormValid
        afterContact ==
            IF contactAccepts
                THEN [disabled |-> TRUE, html |-> LOADING_LABEL,
                      timers |-> Append(timers, submissionTimer(freshId, buttonHTML))]
                ELSE [disabled |-> buttonDisabled, html |-> buttonHTML, timers |-> timers]
        accepts == charterReady /\ charterAccepts(value, emailValue, checked)
        shows == charterReady /\ ~accepts
    IN  /\ submits < MaxSubmits
        /\ submits' = submits + 1
        /\ Len(timers) + 2 <= MaxSharedTimers
        /\ shows => Cardinality(pendingNotes) < MaxNotes
        /\ setDom(validateForm(currentDom))
        /\ emailError' = ~validation(emailObject(emailValue)).isValid
        /\ IF accepts
             THEN /\ buttonHTML' = CHARTER_LOADING_LABEL
                  /\ buttonDisabled' = TRUE
                  /\ timers' = Append(afterContact.timers, charterTimer(afterContact.html))
             ELSE /\ buttonHTML' = afterContact.html
                  /\ buttonDisabled' = afterContact.disabled
                  /\ timers' = afterContact.timers
        /\ IF shows
             THEN /\ notifications' = showNotification(currentNotes, "error").notes
                  /\ noteTimers' = showNotification(currentNotes, "error").timers
             ELSE UNCHANGED notifyVars
        /\ lastEvent' = event(IF contactAccepts THEN "submitAccepted" ELSE "submitRejected",
                              0, accepts)
        /\ UNCHANGED <<formMsgs, emailValue, charterReady, outsideCharter>>

\* timer i is due, and no 2000 ms timer set before it is still waiting
isSubmitTimerDue(i) ==
    /\ timers[i].remaining = 0
    /\ \A j \in 1..(i - 1) : timers[j].kind \notin {"submission", "charter"}

\* the 2000 ms timer of initContactForm fires
ContactDone(i) ==
    /\ timers[i].kind = "submission"
    /\ isSubmitTimerDue(i)
    /\ handleFormSuccess(timers[i].originalButtonText, withoutTimer(i))
    /\ emailValue' = <<>>
    /\ emailError' = FALSE
    /\ lastEvent' = event("success", timers[i].id, FALSE)
    /\ UNCHANGED <<charterReady, submits, notifyVars, outsideCharter>>

\* the 2000 ms timer of the charter handler fires
CharterDone(i) ==
    /\ timers[i].kind = "charter"
    /\ isSubmitTimerDue(i)
    /\ Cardinality(pendingNotes) < MaxNotes
    /\ buttonHTML' = timers[i].originalButtonText
    /\ buttonDisabled' = FALSE
    /\ notifications' = showNotification(currentNotes, "success").notes
    /\ noteTimers' = showNotification(currentNotes, "success").timers
    /\ value' = defaultValue
    /\ checked' = defaultChecked
    /\ emailValue' = <<>>
    /\ timers' = withoutTimer(i)
    /\ lastEvent' = event("charterDone", 0, FALSE)
    /\ UNCHANGED <<errorClass, errorMsgs, formMsgs, emailError, charterReady, submits, outsideCharter>>

\* the time until the next pending callback of the form or of a notification
nextExpiry ==
    LET pending == { timers[i].remaining : i \in TimerIndices }
                       \cup { noteTimers[i].remaining : i \in NoteTimerIndices }
    IN  CHOOSE d \in pending : \A e \in pending : d <= e

\* time passes until the next callback is due; a due callback runs first
TimePasses ==
    /\ timers # <<>> \/ noteTimers # <<>>
    /\ nextExpiry > 0
    /\ timers' = [i \in TimerIndices |-> [timers[i] EXCEPT !.remaining = @ - nextExpiry]]
    /\ noteTimers' = [i \in NoteTimerIndices |->
                         [noteTimers[i] EXCEPT !.remaining = @ - nextExpiry]]
    /\ notifications' = [i \in NoteIndices |->
                            [notifications[i] EXCEPT !.shownFor = @ + nextExpiry]]
    /\ lastEvent' = event("timePasses", 0, FALSE)
    /\ UNCHANGED <<value, checked, errorClass, errorMsgs, formMsgs, buttonDisabled,
                   buttonHTML, charterVars, outsideCharter>>

NextShared ==
    \/ InitCharterInquiry
    \/ \E f \in FieldIds : \E v \in NameTyped \cup {<<>>} : Input(f, v)
    \/ \E f \in FieldIds : Toggle(f)
    \/ \E v \in EmailTyped \cup {<<>>} : InputEmail(v)
    \/ SharedSubmit
    \/ \E i \in TimerIndices : ContactDone(i)
    \/ \E i \in TimerIndices : CharterDone(i)
    \/ \E i \in TimerIndices : RemoveMessage(i)
    \/ \E i \in NoteTimerIndices : AnimateIn(i)
    \/ \E i \in NoteTimerIndices : AutoRemove(i)
    \/ \E i \in NoteTimerIndices : RemoveNotification(i)
    \/ TimePasses

InitSharedPage == Init /\ parentOf = [f \in FieldIds |-> f]

SpecShared == InitSharedPage /\ [][NextShared]_vars

-----------------------------------------------------------------------------
(* initScrollToTop: the button, the throttled scroll listener and the smooth
   scroll to the top that a click on the button starts *)

SCROLL_THRESHOLD == 300
MaxFrames == 2

\* positions the page is scrolled to
ScrollPositions == {0, 150, 300, 301, 450, 600, 900, 1200}

currentScrollTop == [isVisible |-> isVisible, opacity |-> scrollButtonOpacity,
                     ticking |-> scrollTicking, frames |-> pendingFrames]

setScrollTop(b) ==
    /\ isVisible' = b.isVisible
    /\ scrollButtonOpacity' = b.opacity
    /\ scrollTicking' = b.ticking
    /\ pendingFrames' = b.frames

\* toggleScrollButton()
toggleScrollButton(b, y) ==
    LET shouldShow == y > SCROLL_THRESHOLD
    IN  IF shouldShow /\ ~b.isVisible
            THEN [b EXCEPT !.isVisible = TRUE, !.opacity = "1"]
        ELSE IF ~shouldShow /\ b.isVisible
            THEN [b EXCEPT !.isVisible = FALSE, !.opacity = "0"]
        ELSE b

\* a scroll listener that requests a frame for every event
onScrollUnthrottled(b) == [b EXCEPT !.frames = @ + 1, !.ticking = TRUE]

\* window.addEventListener('scroll', ...)
onScroll(b) == IF ~b.ticking THEN [b EXCEPT !.frames = @ + 1, !.ticking = TRUE] ELSE b

\* the callback passed to requestAnimationFrame
onFrame(b, y) == [toggleScrollButton(b, y) EXCEPT !.ticking = FALSE, !.frames = @ - 1]

\* the visitor scrolls to position y; the scroll event is dispatched
ScrollPage(y) ==
    /\ y # pageYOffset
    /\ scrollTicking \/ pendingFrames < MaxFrames
    /\ pageYOffset' = y
    /\ setScrollTop(onScroll(currentScrollTop))
    /\ scrolled' = TRUE
    /\ smoothScrolling' = FALSE
    /\ lastEvent' = event("scroll", 0, ~scrollTicking)
    /\ UNCHANGED outsideScrollTop

\* the next frame: the pending callback runs
AnimationFrame ==
    /\ pendingFrames > 0
    /\ setScrollTop(onFrame(currentScrollTop, pageYOffset))
    /\ lastEvent' = event("frame", 0, FALSE)
    /\ UNCHANGED <<pageYOffset, scrolled, smoothScrolling, outsideScrollTop>>

\* scrollButton.addEventListener('click', ...): window.scrollTo({top: 0, behavior: 'smooth'})
ScrollButtonClick ==
    /\ pageYOffset > 0
    /\ ~smoothScrolling
    /\ smoothScrolling' = TRUE
    /\ lastEvent' = event("scrollButtonClick", 0, FALSE)
    /\ UNCHANGED <<pageYOffset, isVisible, scrollButtonOpacity, scrollTicking,
                   pendingFrames, scrolled, outsideScrollTop>>

\* the browser moves the page one step towards the top and dispatches 'scroll'
SmoothScrollStep ==
    LET below == { p \in ScrollPositions : p < pageYOffset }
        y == CHOOSE p \in below : \A q \in below : q <= p
    IN  /\ smoothScrolling
        /\ pageYOffset > 0
        /\ scrollTicking \/ pendingFrames < MaxFrames
        /\ pageYOffset' = y
        /\ setScrollTop(onScroll(currentScrollTop))
        /\ scrolled' = TRUE
        /\ smoothScrolling' = (y > 0)
        /\ lastEvent' = event("smoothScroll", 0, ~scrollTicking)
        /\ UNCHANGED outsideScrollTop

NextScrollTop ==
    \/ \E y \in ScrollPositions : ScrollPage(y)
    \/ AnimationFrame
    \/ ScrollButtonClick
    \/ SmoothScrollStep

InitScrollTopPage == Init /\ parentOf = [f \in FieldIds |-> f]

SpecScrollTop == InitScrollTopPage /\ [][NextScrollTop]_vars

-----------------------------------------------------------------------------
(* Lazy image loading: initImageLoading of main.js and
   ImageLoader.initLazyLoading of image-loader.js *)

\* loadImage(img): a new Image() starts loading img.dataset.src || img.src
loadImage(img) ==
    [img EXCEPT !.probe = IF img.dataSrc THEN "data-src" ELSE img.src,
                !.requested = @ \/ img.dataSrc]

\* the body of images.forEach in initLazyLoading (main.js):
\* if (img.dataset.src && !img.src) observe, else loadImage
observeOrLoad(img) ==
    IF img.dataSrc /\ img.src = ""
        THEN [img EXCEPT !.observedBy = @ \cup {"main"}]
        ELSE loadImage(img)

\* imageLoader.onload of loadImage
onProbeLoad(img) ==
    [img EXCEPT !.src = IF img.dataSrc THEN "data-src" ELSE @,
                !.dataSrc = FALSE,
                !.probe = ""]

\* imageLoader.onerror of loadImage: the element is replaced by the placeholder
onProbeError(img) == [img EXCEPT !.inDocument = FALSE, !.probe = ""]

\* the observer callback of initLazyLoading (main.js) for one entry
onEntryMain(img, isIntersecting) ==
    IF isIntersecting
        THEN [loadImage(img) EXCEPT !.observedBy = @ \ {"main"}]
        ELSE img

\* the observer callback of ImageLoader.initLazyLoading for one entry
onEntryLoader(img, isIntersecting) ==
    IF isIntersecting
        THEN [img EXCEPT !.src = IF img.dataSrc THEN "data-src" ELSE @,
                         !.requested = @ \/ img.dataSrc,
                         !.dataSrc = FALSE,
                         !.observedBy = @ \ {"loader"}]
        ELSE img

\* initImageLoading() of main.js
InitImageLoading ==
    /\ ~mainLazyReady
    /\ mainLazyReady' = TRUE
    /\ images' = IF hasObserver
                    THEN [i \in ImageIds |->
                             IF images[i].inDocument THEN observeOrLoad(images[i])
                                                      ELSE images[i]]
                    ELSE images
    /\ lastEvent' = event("initImageLoading", 0, hasObserver)
    /\ UNCHANGED <<loaderLazyReady, outsideImages>>

\* ImageLoader.initLazyLoading(): the images after it
initLazyLoading(imgs) ==
    IF hasObserver
        THEN [i \in ImageIds |->
                 IF imgs[i].inDocument /\ imgs[i].dataSrc
                     THEN [imgs[i] EXCEPT !.observedBy = @ \cup {"loader"}]
                     ELSE imgs[i]]
        ELSE imgs

\* a call of ImageLoader.initLazyLoading()
ImageLoaderInitLazyLoading ==
    /\ ~loaderLazyReady
    /\ loaderLazyReady' = TRUE
    /\ images' = initLazyLoading(images)
    /\ lastEvent' = event("imageLoaderInit", 0, hasObserver)
    /\ UNCHANGED <<mainLazyReady, outsideImages>>

\* an observer delivers an entry for image i
IntersectionEntry(i, observer, isIntersecting) ==
    /\ observer \in images[i].observedBy
    /\ isIntersecting => images[i].inDocument
    /\ images' = [images EXCEPT ![i] =
                     LET img == [@ EXCEPT !.reported = @ \/ isIntersecting]
                     IN  IF observer = "main" THEN onEntryMain(img, isIntersecting)
                                              ELSE onEntryLoader(img, isIntersecting)]
    /\ lastEvent' = event("intersection", i, isIntersecting)
    /\ UNCHANGED <<mainLazyReady, loaderLazyReady, outsideImages>>

\* the new Image() of loadImage has loaded
ProbeLoaded(i) ==
    /\ images[i].probe # ""
    /\ images' = [images EXCEPT ![i] = onProbeLoad(@)]
    /\ lastEvent' = event("imageLoaded", i, FALSE)
    /\ UNCHANGED <<mainLazyReady, loaderLazyReady, outsideImages>>

\* the new Image() of loadImage has failed
ProbeFailed(i) ==
    /\ images[i].probe # ""
    /\ images' = [images EXCEPT ![i] = onProbeError(@)]
    /\ lastEvent' = event("imageFailed", i, FALSE)
    /\ UNCHANGED <<mainLazyReady, loaderLazyReady, outsideImages>>

NextImages ==
    \/ InitImageLoading
    \/ ImageLoaderInitLazyLoading
    \/ \E i \in ImageIds : \E o \in {"main", "loader"} : \E b \in BOOLEAN :
          IntersectionEntry(i, o, b)
    \/ \E i \in ImageIds : ProbeLoaded(i)
    \/ \E i \in ImageIds : ProbeFailed(i)

InitImagesPage ==
    /\ InitForm
    /\ parentOf = [f \in FieldIds |-> f]
    /\ vfField = NoField
    /\ vfResult = NotCalled
    /\ InitNotify
    /\ InitMenu
    /\ InitCounters
    /\ inView = FALSE
    /\ InitCharter
    /\ InitScrollToTop
    /\ InitImages
    /\ InitLoader
    /\ InitEndpoint

SpecImages == InitImagesPage /\ [][NextImages]_vars

-----------------------------------------------------------------------------
(* ImageLoader of image-loader.js: init() and getOptimizedImageSrc() *)

\* image names a caller passes, and the categories
ImageNames == { <<"p", ".", "j", "p", "g">>, <<"p", ".", "J", "P", "G">>,
                <<"p", ".", "p", "n", "g">>, <<"p", ".", "j", "p", "e", "g">>,
                <<"p", ".", "w", "e", "b", "p">>, <<"q", ".", "j", "p", "g">>, <<"p">> }
Categories == {"aircraft", "hero"}

\* the JSON documents the server may answer with: category -> name -> paths,
\* as the set of their entries
Manifests == {
    {},
    { [category |-> "aircraft", name |-> <<"p">>, webp |-> "p.webp", original |-> "p.jpg"] },
    { [category |-> "hero", name |-> <<"p">>, webp |-> "h.webp", original |-> "h.jpg"],
      [category |-> "hero", name |-> <<"q">>, webp |-> "q.webp", original |-> "q.jpg"] } }

toLowerCase(c) ==
    CASE c = "J" -> "j" [] c = "P" -> "p" [] c = "G" -> "g" [] c = "E" -> "e"
      [] c = "N" -> "n" [] OTHER -> c

lowered(s) == [i \in 1..Len(s) |-> toLowerCase(s[i])]

endsWith(s, suffix) ==
    /\ Len(s) >= Len(suffix)
    /\ SubSeq(s, Len(s) - Len(suffix) + 1, Len(s)) = suffix

\* imageName.replace(/\.(jpg|jpeg|png)$/i, '')
stripExtension(s) ==
    LET l == lowered(s)
    IN  IF endsWith(l, <<".", "j", "p", "g">>) \/ endsWith(l, <<".", "p", "n", "g">>)
            THEN SubSeq(s, 1, Len(s) - 4)
        ELSE IF endsWith(l, <<".", "j", "p", "e", "g">>)
            THEN SubSeq(s, 1, Len(s) - 5)
        ELSE s

\* `/assets/images/${imageName}`
unoptimizedPath(imageName) == [dir |-> "/assets/images/", file |-> imageName]

\* '/assets/images/optimized/' + file
optimizedPath(file) == [dir |-> "/assets/images/optimized/", file |-> file]

\* this.imageManifest[category]?.[name]: the entries found
imageData(manifest, category, name) ==
    { e \in manifest.entries : e.category = category /\ e.name = name }

\* a getOptimizedImageSrc that reads the manifest without testing it
getOptimizedImageSrcUnchecked(manifest, webp, imageName, category) ==
    IF manifest.isNull
        THEN [threw |-> TRUE, path |-> [dir |-> "", file |-> <<>>]]
        ELSE LET found == imageData(manifest, category, stripExtension(imageName))
             IN  IF found = {}
                     THEN [threw |-> FALSE, path |-> unoptimizedPath(imageName)]
                     ELSE LET e == CHOOSE x \in found : TRUE
                          IN  [threw |-> FALSE,
                               path |-> optimizedPath(IF webp = "true" THEN e.webp ELSE e.original)]

\* getOptimizedImageSrc(imageName, category)
getOptimizedImageSrc(manifest, webp, imageName, category) ==
    IF manifest.isNull
        THEN [threw |-> FALSE, path |-> unoptimizedPath(imageName)]
        ELSE LET found == imageData(manifest, category, stripExtension(imageName))
             IN  IF found = {}
                     THEN [threw |-> FALSE, path |-> unoptimizedPath(imageName)]
                     ELSE LET e == CHOOSE x \in found : TRUE
                          IN  [threw |-> FALSE,
                               path |-> optimizedPath(IF webp = "true" THEN e.webp ELSE e.original)]

\* checkWebPSupport() resolves; init() goes on and calls fetch
WebPChecked(supported) ==
    /\ loaderPhase = "checkingWebP"
    /\ supportsWebP' = IF supported THEN "true" ELSE "false"
    /\ manifestFetches' = manifestFetches + 1
    /\ loaderPhase' = "fetching"
    /\ lastEvent' = event("webpChecked", 0, supported)
    /\ UNCHANGED <<imageManifest, manifestResponse, lastCall, images, loaderLazyReady,
                   outsideLoader>>

\* init() leaves the try block, by its end or through catch, and calls initLazyLoading()
finishInit(manifest, fetchResponse) ==
    /\ imageManifest' = manifest
    /\ manifestResponse' = fetchResponse
    /\ loaderPhase' = "done"
    /\ images' = initLazyLoading(images)
    /\ loaderLazyReady' = TRUE
    /\ UNCHANGED <<supportsWebP, manifestFetches, lastCall, outsideLoader>>

\* fetch rejects: catch (error) { console.warn(...) }
FetchRejected ==
    /\ loaderPhase = "fetching"
    /\ finishInit(imageManifest, "rejected")
    /\ lastEvent' = event("fetchRejected", 0, FALSE)

\* fetch resolves with a response; init() awaits response.json()
FetchResolved ==
    /\ loaderPhase = "fetching"
    /\ loaderPhase' = "parsing"
    /\ lastEvent' = event("fetchResolved", 0, FALSE)
    /\ UNCHANGED <<supportsWebP, imageManifest, manifestFetches, manifestResponse, lastCall,
                   images, loaderLazyReady, outsideLoader>>

\* response.json() rejects: the body is not JSON
JsonRejected ==
    /\ loaderPhase = "parsing"
    /\ finishInit(imageManifest, "invalidJson")
    /\ lastEvent' = event("jsonRejected", 0, FALSE)

\* response.json() resolves with the manifest
JsonResolved(manifest) ==
    /\ loaderPhase = "parsing"
    /\ finishInit(manifest, "json")
    /\ lastEvent' = event("jsonResolved", 0, FALSE)

\* some module calls imageLoader.getOptimizedImageSrc(imageName, category)
GetOptimizedImageSrc(imageName, category) ==
    LET r == getOptimizedImageSrc(imageManifest, supportsWebP, imageName, category)
    IN  /\ lastCall' = [called |-> TRUE, imageName |-> imageName, category |-> category,
                        phase |-> loaderPhase, threw |-> r.threw, path |-> r.path]
        /\ lastEvent' = event("getOptimizedImageSrc", 0, FALSE)
        /\ UNCHANGED <<loaderPhase, supportsWebP, imageManifest, manifestFetches,
                       manifestResponse, images, loaderLazyReady, outsideLoader>>

NextLoader ==
    \/ \E supported \in BOOLEAN : WebPChecked(supported)
    \/ FetchRejected
    \/ FetchResolved
    \/ JsonRejected
    \/ \E entries \in Manifests : JsonResolved(document(entries))
    \/ JsonResolved(NULL)
    \/ \E imageName \in ImageNames : \E category \in Categories :
          GetOptimizedImageSrc(imageName, category)

InitLoaderPage == InitImagesPage

SpecLoader == InitLoaderPage /\ [][NextLoader]_vars

-----------------------------------------------------------------------------
(* The form-submission endpoints: netlify/functions/contact-form.js and
   api/contact.js, each as a function of the request *)

Methods == {"POST", "GET", "OPTIONS", "PUT"}

\* values of the fields of a submitted body; a field left out is <<>>
BodyNames == { <<>>, <<"a">>, <<"A", "l">> }

BodyEmails == { <<>>, <<"a", "@", "a", ".", "a">>, <<"a", "@", "a">>,
                <<" ", "a", "@", "a", ".", "a">>, <<"a", "@", "@", "a", ".", "a">> }

BodyCourses == { <<>>, <<"a">> }

BodyWebsites == { <<>>, <<"a">> }

Bodies == [name : BodyNames, email : BodyEmails, courseInterest : BodyCourses,
           website : BodyWebsites]

\* parsed = FALSE: the body is no JSON object (JSON.parse throws, req.body is
\* undefined)
Requests ==
    [endpoint : {"netlify", "vercel"}, method : Methods, parsed : {TRUE}, body : Bodies]
    \cup [endpoint : {"netlify", "vercel"}, method : Methods, parsed : {FALSE},
          body : {NoBody}]

requiredFields == <<"name", "email", "courseInterest">>

\* a filter that stops at the first missing field
missingFieldsFirstOnly(formData) ==
    LET missing == SelectSeq(requiredFields, LAMBDA field : formData[field] = <<>>)
    IN  IF missing = <<>> THEN <<>> ELSE <<Head(missing)>>

\* requiredFields.filter(field => !formData[field])
missingFields(formData) ==
    SelectSeq(requiredFields, LAMBDA field : formData[field] = <<>>)

\* an endpoint without the honeypot check
honeypotIgnored(formData) == FALSE

\* if (formData.website)
honeypotFilled(formData) == formData.website # <<>>

answer(statusCode, keys, missing, logged) ==
    [answered |-> TRUE, status |-> statusCode, keys |-> keys, missingFields |-> missing,
     logged |-> logged]

\* the try block of both handlers and its catch
processForm(req) ==
    IF ~req.parsed
        THEN answer(500, {"error"}, <<>>, FALSE)
    ELSE IF missingFields(req.body) # <<>>
        THEN answer(400, {"error", "missingFields"}, missingFields(req.body), FALSE)
    ELSE IF ~emailRegex(req.body.email)
        THEN answer(400, {"error"}, <<>>, FALSE)
    ELSE IF honeypotFilled(req.body)
        THEN answer(400, {"error"}, <<>>, FALSE)
    ELSE answer(200, {"success", "message", "leadId"}, <<>>, TRUE)

\* exports.handler of netlify/functions/contact-form.js
netlifyHandler(req) ==
    IF req.method # "POST"
        THEN answer(405, {"error"}, <<>>, FALSE)
        ELSE processForm(req)

\* handler of api/contact.js
vercelHandler(req) ==
    IF req.method = "OPTIONS"
        THEN answer(200, {}, <<>>, FALSE)
    ELSE IF req.method # "POST"
        THEN answer(405, {"error"}, <<>>, FALSE)
    ELSE processForm(req)

\* the Netlify function is invoked
NetlifyRequest ==
    /\ request.endpoint = "netlify"
    /\ ~response.answered
    /\ response' = netlifyHandler(request)
    /\ UNCHANGED <<request, outsideEndpoint>>

\* the Vercel function is invoked
VercelRequest ==
    /\ request.endpoint = "vercel"
    /\ ~response.answered
    /\ response' = vercelHandler(request)
    /\ UNCHANGED <<request, outsideEndpoint>>

NextEndpoint == NetlifyRequest \/ VercelRequest

InitEndpointPage ==
    /\ InitForm
    /\ parentOf = [f \in FieldIds |-> f]
    /\ vfField = NoField
    /\ vfResult = NotCalled
    /\ InitNotify
    /\ InitMenu
    /\ InitCounters
    /\ NoCounters
    /\ InitCharter
    /\ InitScrollToTop
    /\ InitImages
    /\ PlainImages
    /\ InitLoader
    /\ request \in Requests
    /\ response = NotAnswered

SpecEndpoint == InitEndpointPage /\ [][NextEndpoint]_vars

-----------------------------------------------------------------------------
(* C9, C10: validateField as a function of the field *)

IsBlank(s) == \A k \in 1..Len(s) : s[k] \in Whitespace

\* C9: a required field that is not a checkbox and whose value is empty or
\* only whitespace is reported invalid, whatever its type and name.
C9_RequiredBlankIsInvalid ==
    (vfResult.called /\ vfField.type # "checkbox" /\ vfField.required
        /\ IsBlank(vfField.value))
    => ~vfResult.isValid

C9_Witness ==
    /\ vfResult.called
    /\ vfField.type = "tel"
    /\ vfField.required
    /\ vfField.value = <<" ", " ">>
    /\ ~vfResult.isValid

\* the shape local@domain.tld: no whitespace, exactly one "@" between two
\* non-empty parts, and in the part after it a dot that is neither its first
\* nor its last character
HasEmailShape(s) ==
    LET ats == { k \in 1..Len(s) : s[k] = "@" }
    IN  /\ \A k \in 1..Len(s) : s[k] \notin Whitespace
        /\ Cardinality(ats) = 1
        /\ LET at == CHOOSE k \in ats : TRUE
               domain == SubSeq(s, at + 1, Len(s))
           IN  /\ at > 1
               /\ \E d \in 2..(Len(domain) - 1) : domain[d] = "."

\* C10: an email field whose trimmed value is not empty passes exactly when
\* the trimmed value has the shape local@domain.tld.
C10_EmailPassesIffShaped ==
    (vfResult.called /\ vfField.type = "email" /\ Trim(vfField.value) # <<>>)
    => (vfResult.isValid <=> HasEmailShape(Trim(vfField.value)))

C10_Witness ==
    /\ vfResult.called
    /\ vfField.type = "email"
    /\ vfField.value = <<" ", "a", "@", "a", ".", "a">>
    /\ vfResult.isValid

C10_WitnessNoDot ==
    /\ vfResult.called
    /\ vfField.type = "email"
    /\ vfField.value = <<"a", "@", "a">>
    /\ ~vfResult.isValid

-----------------------------------------------------------------------------
(* C11 - C14: the message, name and phone rules of validateField *)

IsMessageField(field) == field.tagName = "textarea" /\ field.name = "message"

\* C11: a message textarea whose trimmed value is not empty passes exactly
\* when the trimmed length n satisfies 10 <= n <= 1000 (9 fails, 10 passes,
\* 1000 passes, 1001 fails).
C11_MessagePassesIffInRange ==
    (vfResult.called /\ IsMessageField(vfField) /\ Trim(vfField.value) # <<>>)
    => (vfResult.isValid <=> /\ 10 <= Len(Trim(vfField.value))
                             /\ Len(Trim(vfField.value)) <= 1000)

\* a padded message of exactly 1000 characters after trim passes
C11_Witness ==
    /\ vfResult.called
    /\ IsMessageField(vfField)
    /\ Len(vfField.value) = 1003
    /\ Len(Trim(vfField.value)) = 1000
    /\ vfResult.isValid

C11_WitnessTooShort ==
    /\ vfResult.called
    /\ IsMessageField(vfField)
    /\ Len(Trim(vfField.value)) = 9
    /\ ~vfResult.isValid

C11_WitnessTooLong ==
    /\ vfResult.called
    /\ IsMessageField(vfField)
    /\ Len(Trim(vfField.value)) = 1001
    /\ ~vfResult.isValid

OutsideRange(n) == n < 10 \/ n > 1000

\* C12 as claimed: a message textarea is reported invalid for every trimmed
\* length outside [10, 1000], length 0 of a field that is not required
\* included.
C12_OutsideRangeInvalid ==
    (vfResult.called /\ IsMessageField(vfField)
        /\ OutsideRange(Len(Trim(vfField.value))))
    => ~vfResult.isValid

\* C12 amended: a message textarea is reported invalid for every trimmed
\* length outside [10, 1000] except length 0; an empty message is invalid
\* exactly when the field is required.
C12_OutsideRangeInvalidUnlessEmpty ==
    (vfResult.called /\ IsMessageField(vfField)
        /\ OutsideRange(Len(Trim(vfField.value))))
    => (vfResult.isValid <=> (Trim(vfField.value) = <<>> /\ ~vfField.required))

\* a whitespace-only message of a field that is not required passes
C12_Witness ==
    /\ vfResult.called
    /\ IsMessageField(vfField)
    /\ ~vfField.required
    /\ vfField.value = <<" ", " ">>
    /\ vfResult.isValid

Letters == LowerLetters \cup UpperLetters \cup Umlauts

NameAllowed == Letters \cup {" ", "-", "."}

IsNameField(field) == field.type = "text" /\ field.name = "name"

LetterCount(s) == Cardinality({ k \in 1..Len(s) : s[k] \in Letters })

\* C13 as claimed: a non-empty value of the text field 'name' passes exactly
\* when it holds at least 2 letters and nothing but letters, spaces, hyphens
\* and periods.
C13_NamePassesIffTwoLetters ==
    (vfResult.called /\ IsNameField(vfField) /\ Trim(vfField.value) # <<>>)
    => (vfResult.isValid <=>
            /\ LetterCount(Trim(vfField.value)) >= 2
            /\ \A k \in 1..Len(Trim(vfField.value)) :
                  Trim(vfField.value)[k] \in NameAllowed)

\* C13 amended: a non-empty value of the text field 'name' passes exactly
\* when its trimmed value is at least 2 characters long and holds nothing but
\* letters, spaces, hyphens and periods; it need not hold 2 letters.
C13_NamePassesIffTwoCharacters ==
    (vfResult.called /\ IsNameField(vfField) /\ Trim(vfField.value) # <<>>)
    => (vfResult.isValid <=>
            /\ Len(Trim(vfField.value)) >= 2
            /\ \A k \in 1..Len(Trim(vfField.value)) :
                  Trim(vfField.value)[k] \in NameAllowed)

\* a name of one letter and a period passes
C13_Witness ==
    /\ vfResult.called
    /\ IsNameField(vfField)
    /\ vfField.value = <<"a", ".">>
    /\ vfResult.isValid

C13_WitnessGermanLetter ==
    /\ vfResult.called
    /\ IsNameField(vfField)
    /\ vfField.value = <<"ß", "a">>
    /\ vfResult.isValid

PhoneAllowed == Digits \cup {" ", "-", "(", ")", "."}

\* the value without its leading '+', if it has one
AfterPlus(s) == IF s # <<>> /\ s[1] = "+" THEN SubSeq(s, 2, Len(s)) ELSE s

\* C14 as claimed: a non-empty value of a tel field passes exactly when it
\* is an optional '+' followed only by digits, spaces, hyphens, parentheses
\* and dots, and the value is at least 8 characters long.
C14_PhonePassesIffEightLong ==
    (vfResult.called /\ vfField.type = "tel" /\ Trim(vfField.value) # <<>>)
    => (vfResult.isValid <=>
            LET v == Trim(vfField.value)
            IN  /\ \A k \in 1..Len(AfterPlus(v)) : AfterPlus(v)[k] \in PhoneAllowed
                /\ Len(v) >= 8)

\* C14 amended: ... and the part after the optional '+' is at least 8
\* characters long.
C14_PhonePassesIffEightAfterPlus ==
    (vfResult.called /\ vfField.type = "tel" /\ Trim(vfField.value) # <<>>)
    => (vfResult.isValid <=>
            LET v == Trim(vfField.value)
            IN  /\ \A k \in 1..Len(AfterPlus(v)) : AfterPlus(v)[k] \in PhoneAllowed
                /\ Len(AfterPlus(v)) >= 8)

\* a value of 8 characters, the '+' among them, is rejected
C14_Witness ==
    /\ vfResult.called
    /\ vfField.type = "tel"
    /\ vfField.value = <<"+", "1">> \o PhoneBody
    /\ ~vfResult.isValid

C14_WitnessAccepted ==
    /\ vfResult.called
    /\ vfField.type = "tel"
    /\ vfField.value = <<"+">> \o PhoneBody \o <<"1", "1">>
    /\ vfResult.isValid

-----------------------------------------------------------------------------
(* C1 - C8: the submission life cycle *)

isInvalid(f) == ~validation(fieldObject(currentDom, f)).isValid

\* the step is one run of the submit handler
SubmitStep == lastEvent'.type \in {"submitRejected", "submitAccepted"}

\* the error messages a field has put into its parent
ownErrors(msgs, f) == { i \in 1..Len(msgs[parentOf[f]]) : msgs[parentOf[f]][i].owner = f }

\* C1: a submit with at least one invalid field is blocked - the button is
\* not disabled, no timer is set and no form message is inserted - and every
\* invalid field, not only the first, carries the error class afterwards.
C1_InvalidSubmitBlocked ==
    [][ (SubmitStep /\ \E f \in FieldIds : isInvalid(f))
        => /\ buttonDisabled' = buttonDisabled
           /\ buttonHTML' = buttonHTML
           /\ timers' = timers
           /\ formMsgs' = formMsgs
           /\ \A f \in FieldIds : isInvalid(f) => errorClass'[f] ]_vars

C1_Witness ==
    /\ lastEvent.type = "submitRejected"
    /\ value[1] = <<>> /\ errorClass[1]
    /\ ~checked[2] /\ errorClass[2]
    /\ ~buttonDisabled
    /\ timers = <<>>
    /\ formMsgs = <<>>

\* the message a step has inserted: in the form afterwards, not before
inserted == { i \in 1..Len(formMsgs') :
                \A k \in 1..Len(formMsgs) : formMsgs[k].id # formMsgs'[i].id }

\* C2: every submit of a valid form takes the button from enabled to disabled
\* and sets the 2000 ms timer; the button is enabled again when that timer
\* fires, which inserts exactly one success message and resets the fields;
\* nothing else changes the button.
C2_OneCyclePerSubmit ==
    [][ /\ (SubmitStep /\ \A f \in FieldIds : ~isInvalid(f))
            => /\ ~buttonDisabled
               /\ buttonDisabled'
               /\ Len(timers') = Len(timers) + 1
               /\ timers'[Len(timers')].kind = "submission"
               /\ timers'[Len(timers')].remaining = SUBMIT_DELAY
        /\ (lastEvent'.type = "success")
            => /\ buttonDisabled
               /\ ~buttonDisabled'
               /\ Cardinality(inserted) = 1
               /\ \A i \in inserted : formMsgs'[i].kind = "success"
               /\ value' = defaultValue
               /\ checked' = defaultChecked
        /\ (buttonDisabled' # buttonDisabled)
            => lastEvent'.type \in {"submitAccepted", "success"} ]_vars

\* C3: at most one submission is pending at any time.
C3_AtMostOnePending == Cardinality(submissionTimers) <= 1

\* C4: once no submission timer is pending the button is enabled and shows
\* the label it had before the first submit.
C4_ButtonRestored ==
    (submissionTimers = {}) => (~buttonDisabled /\ buttonHTML = ORIGINAL_LABEL)

\* C5: a form holds at most one form-message element.
C5_AtMostOneFormMessage == Len(formMsgs) <= 1

\* a message was replaced: its removal timer is still pending, it is gone
C5_Witness ==
    /\ lastEvent.type \in {"success", "failure"}
    /\ Len(formMsgs) = 1
    /\ \E t \in removalTimers : t.id # formMsgs[1].id

\* a form message is in the form before the step and not after it
removedBy(m) == \A k \in 1..Len(formMsgs') : formMsgs'[k].id # m.id

\* the step is the firing of the 8000 ms timer set for message m
ownTimerFires(m) ==
    /\ lastEvent'.type = "removed"
    /\ lastEvent'.field = m.id
    /\ \E i \in TimerIndices :
          /\ timers[i].kind = "removeMessage"
          /\ timers[i].id = m.id
          /\ timers[i].remaining = 0

\* C6 as claimed: a success message leaves the form only when its own
\* 8000 ms timer fires.
C6_OnlyOwnTimerRemoves ==
    [][ \A k \in 1..Len(formMsgs) :
           (formMsgs[k].kind = "success" /\ removedBy(formMsgs[k]))
           => ownTimerFires(formMsgs[k]) ]_vars

\* C6 amended: a success message leaves the form only when its own 8000 ms
\* timer fires or when handleFormSuccess of a later submission puts its
\* message in its place; when its own timer fires it is removed.
C6_OwnTimerOrReplacement ==
    [][ /\ \A k \in 1..Len(formMsgs) :
              (formMsgs[k].kind = "success" /\ removedBy(formMsgs[k]))
              => \/ ownTimerFires(formMsgs[k])
                 \/ /\ lastEvent'.type = "success"
                    /\ Cardinality(inserted) = 1
        /\ \A k \in 1..Len(formMsgs) :
              ownTimerFires(formMsgs[k]) => removedBy(formMsgs[k]) ]_vars

\* the message's own timer has just removed it, 8000 ms after it was shown
C6_Witness ==
    /\ lastEvent.type = "removed"
    /\ formMsgs = <<>>
    /\ timers = <<>>

\* a later success has replaced a message whose timer is still running
C6_WitnessReplaced ==
    /\ lastEvent.type = "success"
    /\ Len(formMsgs) = 1
    /\ \E t \in removalTimers : t.id # formMsgs[1].id /\ t.remaining > 0

pendingSubmission(id) == \E t \in submissionTimers : t.id = id

\* C7: a submission that is pending is never dropped by another event, and
\* it reaches handleFormSuccess, which enables the button.
C7_NoCancellation ==
    /\ [][ \A id \in 0..MaxTimers :
              (pendingSubmission(id) /\ ~pendingSubmission(id)')
              => (lastEvent'.type = "success" /\ lastEvent'.field = id
                  /\ ~buttonDisabled') ]_vars
    /\ \A id \in 0..MaxTimers :
          pendingSubmission(id)
          ~> (lastEvent.type = "success" /\ lastEvent.field = id /\ ~buttonDisabled)

\* a field was marked invalid while a submission was pending
C7_Witness ==
    /\ submissionTimers # {}
    /\ \E f \in FieldIds : errorClass[f]
    /\ lastEvent.type \in {"blur", "input", "change"}

\* C8: blur always validates the field; input on a field without the error
\* class changes no error class and no error message; input on a field with
\* the error class validates it, and a valid value removes the class and the
\* field's message in that event.
C8_RealTimeValidation ==
    [][ LET f == lastEvent'.field
            nowInvalid == ~validation(fieldObject(
                              [currentDom EXCEPT !.value = value', !.checked = checked'],
                              f)).isValid
        IN  /\ (lastEvent'.type = "blur")
                => /\ errorClass'[f] = nowInvalid
                   /\ (ownErrors(errorMsgs', f) # {}) = nowInvalid
            /\ (lastEvent'.type = "input" /\ ~errorClass[f])
                => /\ errorClass' = errorClass
                   /\ errorMsgs' = errorMsgs
            /\ (lastEvent'.type = "input" /\ errorClass[f])
                => /\ errorClass'[f] = nowInvalid
                   /\ (ownErrors(errorMsgs', f) # {}) = nowInvalid ]_vars

\* an input event has just cleared the error of a field that was marked
C8_Witness ==
    /\ lastEvent.type = "input"
    /\ lastEvent.validated
    /\ ~errorClass[lastEvent.field]
    /\ ownErrors(errorMsgs, lastEvent.field) = {}
    /\ value[lastEvent.field] # <<>>

-----------------------------------------------------------------------------
(* C15: toggling the required checkbox *)

\* the error messages field g shows, in document order
shownErrors(msgs, g) == SelectSeq(msgs[parentOf[g]], LAMBDA m : m.owner = g)

\* the step is a click that checks the unchecked checkbox f
ChecksBox(f) ==
    /\ lastEvent'.type = "change"
    /\ lastEvent'.field = f
    /\ ~checked[f]
    /\ checked'[f]

\* C15: when a required checkbox goes from unchecked to checked its change
\* event validates it, its validity goes from false to true, and the error
\* class and the shown error message of every other field stay as they were.
C15_ToggleLeavesOthersAlone ==
    [][ \A f \in FieldIds :
          (Fields[f].type = "checkbox" /\ Fields[f].required /\ ChecksBox(f))
          => /\ isInvalid(f)
             /\ ~errorClass'[f]
             /\ shownErrors(errorMsgs', f) = <<>>
             /\ \A g \in FieldIds \ {f} :
                   /\ value'[g] = value[g]
                   /\ errorClass'[g] = errorClass[g]
                   /\ shownErrors(errorMsgs', g) = shownErrors(errorMsgs, g) ]_vars

\* the same with every field in a wrapper of its own
C15_HoldsWithOwnWrappers ==
    [][ (\A f, g \in FieldIds : parentOf[f] = parentOf[g] => f = g)
        => \A f \in FieldIds :
             (Fields[f].type = "checkbox" /\ Fields[f].required /\ ChecksBox(f))
             => /\ isInvalid(f)
                /\ ~errorClass'[f]
                /\ shownErrors(errorMsgs', f) = <<>>
                /\ \A g \in FieldIds \ {f} :
                      /\ value'[g] = value[g]
                      /\ errorClass'[g] = errorClass[g]
                      /\ shownErrors(errorMsgs', g) = shownErrors(errorMsgs, g) ]_vars

-----------------------------------------------------------------------------
(* C16, C17: the page-scoped notification *)

\* C16: the document holds at most one notification element, and a call of
\* showNotification leaves exactly the element it has created.
C16_AtMostOneNotification ==
    /\ Len(notifications) <= 1
    /\ lastEvent.type = "show"
          => (Len(notifications) = 1 /\ notifications[1].id = lastEvent.field
              /\ notifications[1].shownFor = 0)

\* a call has replaced a notification whose timers are still pending
C16_Witness ==
    /\ lastEvent.type = "show"
    /\ Len(notifications) = 1
    /\ \E i \in NoteTimerIndices :
          noteTimers[i].id # notifications[1].id /\ noteTimers[i].kind = "autoRemove"

\* notification n is in the document before the step and not after it
noteRemoved(n) == \A k \in 1..Len(notifications') : notifications'[k].id # n.id

\* the step is a manual dismissal of n or a showNotification replacing it
dismissedOrReplaced(n) ==
    \/ lastEvent'.type = "dismiss" /\ lastEvent'.field = n.id
    \/ lastEvent'.type = "show"

\* C17 as claimed: a notification that is neither dismissed nor replaced is
\* removed when its 5000 ms timer fires, and is in the document until then.
C17_RemovedWhenTimerFires ==
    [][ \A k \in NoteIndices :
          LET n == notifications[k]
          IN  /\ (lastEvent'.type = "autoRemove" /\ lastEvent'.field = n.id)
                    => noteRemoved(n)
              /\ (noteRemoved(n) /\ ~dismissedOrReplaced(n))
                    => (lastEvent'.type = "autoRemove" /\ lastEvent'.field = n.id
                        /\ n.shownFor = NOTIFICATION_LIFETIME) ]_vars

\* C17 amended: when the 5000 ms timer fires the notification stays in the
\* document and a 300 ms timer is set; that timer removes it, 5300 ms after
\* it was shown; until then only a dismissal or a replacement removes it.
C17_RemovedAfterSlideOut ==
    [][ \A k \in NoteIndices :
          LET n == notifications[k]
          IN  /\ (lastEvent'.type = "autoRemove" /\ lastEvent'.field = n.id)
                    => /\ ~noteRemoved(n)
                       /\ n.shownFor = NOTIFICATION_LIFETIME
                       /\ \E i \in 1..Len(noteTimers') :
                             /\ noteTimers'[i].kind = "remove"
                             /\ noteTimers'[i].id = n.id
                             /\ noteTimers'[i].remaining = SLIDE_OUT_DELAY
              /\ (lastEvent'.type = "removeNotification" /\ lastEvent'.field = n.id)
                    => noteRemoved(n)
              /\ (noteRemoved(n) /\ ~dismissedOrReplaced(n))
                    => (lastEvent'.type = "removeNotification" /\ lastEvent'.field = n.id
                        /\ n.shownFor = NOTIFICATION_LIFETIME + SLIDE_OUT_DELAY) ]_vars

\* the 5000 ms timer has fired and the notification is still in the document
C17_Witness ==
    /\ lastEvent.type = "autoRemove"
    /\ Len(notifications) = 1
    /\ notifications[1].id = lastEvent.field
    /\ notifications[1].shownFor = NOTIFICATION_LIFETIME
    /\ notifications[1].transform = "translateX(full)"

\* the 300 ms timer has removed it
C17_WitnessRemoved ==
    /\ lastEvent.type = "removeNotification"
    /\ notifications = <<>>
    /\ noteTimers = <<>>

-----------------------------------------------------------------------------
(* C18, C19: the mobile menu *)

\* an open or close animation is in flight: its completion timer is pending
animationInFlight ==
    \E i \in MenuTimerIndices : menuTimers[i].kind \in {"openDone", "closeDone"}

\* C18: a click on the menu button while an open or close animation is in
\* flight, whatever started it, changes nothing and starts no animation.
C18_ClickDuringAnimationIgnored ==
    [][ (lastEvent'.type = "menuClick" /\ animationInFlight)
        => /\ menuHidden' = menuHidden
           /\ ariaLabel' = ariaLabel
           /\ bodyOverflow' = bodyOverflow
           /\ isAnimating' = isAnimating
           /\ menuTimers' = menuTimers ]_vars

\* the same for the animations that toggleMobileMenu has started itself
C18_ClickDuringOwnAnimationIgnored ==
    [][ (lastEvent'.type = "menuClick" /\ isAnimating)
        => /\ menuHidden' = menuHidden
           /\ ariaLabel' = ariaLabel
           /\ bodyOverflow' = bodyOverflow
           /\ isAnimating' = isAnimating
           /\ menuTimers' = menuTimers ]_vars

menuClosed == menuHidden /\ bodyOverflow = "" /\ ariaLabel = "Menü öffnen"

\* the last event was an outside click, Escape, a link click or a resize to
\* 768 px or more that found the menu open, and the visitor has stopped
closeRequested ==
    /\ lastEvent.type \in {"outsideClick", "escape", "linkClick", "resize"}
    /\ lastEvent.validated
    /\ userIdle

C19_WitnessClosed ==
    /\ userIdle
    /\ lastEvent.type = "closeDone"
    /\ menuClosed
    /\ menuTimers = <<>>

-----------------------------------------------------------------------------
(* C20: the statistics counters *)

pendingFor(c) == \E i \in CounterTimerIndices : counterTimers[i].counter = c

\* C20: on both paths the counters are triggered at most once; once
\* hasAnimated is set every counter's animation is started once - its start
\* is pending or has happened - and none is started a second time.
C20_CountersTriggerOnce ==
    /\ triggered <= 1
    /\ hasAnimated <=> triggered = 1
    /\ \A c \in Counters :
          /\ started[c] <= 1
          /\ ~hasAnimated => (started[c] = 0 /\ ~pendingFor(c))
          /\ hasAnimated => (started[c] = 1 <=> ~pendingFor(c))

\* fallback path: every counter has started, and the section was scrolled
\* into view again afterwards
C20_Witness ==
    /\ ~hasObserver
    /\ hasAnimated
    /\ \A c \in Counters : started[c] = 1
    /\ counterTimers = <<>>
    /\ lastEvent.type = "scrollFrame"
    /\ inView

\* observer path: every counter has started and the observer is disconnected
C20_WitnessObserver ==
    /\ hasObserver
    /\ hasAnimated
    /\ ~observing
    /\ \A c \in Counters : started[c] = 1

-----------------------------------------------------------------------------
(* C26: the form after a successful submission *)

\* C26: the step in which a submission succeeds leaves every field at its
\* default value, no field with the error class and no error message in the
\* form, whatever blur and input events had marked before.
C26_SuccessClearsForm ==
    [][ (lastEvent'.type = "success")
        => /\ value' = defaultValue
           /\ checked' = defaultChecked
           /\ \A f \in FieldIds : ~errorClass'[f]
           /\ \A p \in Parents : errorMsgs'[p] = <<>> ]_vars

\* a submission is about to succeed while a field, emptied and left during
\* the pending interval, carries the error class and shows its message
C26_Witness ==
    /\ \E i \in TimerIndices : timers[i].kind = "submission" /\ timers[i].remaining = 0
    /\ \E f \in FieldIds : errorClass[f] /\ ownErrors(errorMsgs, f) # {}

-----------------------------------------------------------------------------
(* C30: error class and error message of each field *)

\* C30: in every reachable state each field carries the error class iff
\* exactly one error message produced by that field is present under its
\* parent, also when fields share a parent.
C30_ErrorClassIffOwnMessage ==
    \A f \in FieldIds : errorClass[f] <=> (Cardinality(ownErrors(errorMsgs, f)) = 1)

\* the same with every field in a wrapper of its own
C30_HoldsWithOwnWrappers ==
    (\A f, g \in FieldIds : parentOf[f] = parentOf[g] => f = g)
    => \A f \in FieldIds : errorClass[f] <=> (Cardinality(ownErrors(errorMsgs, f)) = 1)

\* no field ever has more than one message of its own under its parent
C30_AtMostOneMessagePerField ==
    \A f \in FieldIds : Cardinality(ownErrors(errorMsgs, f)) <= 1

-----------------------------------------------------------------------------
(* C27: the menu, the body scroll lock and the label of the button *)

\* C27: whenever no timer of the mobile menu is pending, the menu is hidden
\* iff the body scroll is unlocked iff the label of the button is
\* 'Menü öffnen'.
C27_MenuStateConsistent ==
    (menuTimers = <<>>)
    => /\ menuHidden <=> (bodyOverflow # "hidden")
       /\ menuHidden <=> (ariaLabel = "Menü öffnen")

\* the part of C27 about the anchor links: whenever no timer of the mobile
\* menu is pending, a hidden menu does not leave the body scroll locked
C27_HiddenMenuUnlocksScroll ==
    (menuTimers = <<>> /\ menuHidden) => bodyOverflow # "hidden"

\* the stale-timer part of C27: the timer of a close never hides a menu
\* that the button has opened after that close was requested
C27_CloseTimerHidesClosingMenu ==
    [][ (lastEvent'.type = "closeDone" /\ ~menuHidden) => ariaLabel = "Menü öffnen" ]_vars

-----------------------------------------------------------------------------
(* C28: one form bound by initContactForm and by initCharterInquiry *)

successMessages ==
    Cardinality({ i \in 1..Len(formMsgs) : formMsgs[i].kind = "success" })
    + Cardinality({ i \in NoteIndices : notifications[i].type = "success" })

submissionPending == \E i \in TimerIndices : timers[i].kind \in {"submission", "charter"}

\* C28: with both listeners on one form, a submit that validateForm rejects
\* leaves the button and the timers as they were, so it never disables the
\* button and no success notification follows from it.
C28_RejectedSubmitBlocked ==
    [][ (lastEvent'.type = "submitRejected")
        => /\ buttonDisabled' = buttonDisabled
           /\ buttonHTML' = buttonHTML
           /\ timers' = timers ]_vars

\* the part of C28 about a valid submit: once no submission is pending the
\* button is enabled with its original label, and at most one success
\* message is shown
C28_ValidSubmitCompletesOnce ==
    /\ (~submissionPending) => (~buttonDisabled /\ buttonHTML = ORIGINAL_LABEL)
    /\ successMessages <= 1

-----------------------------------------------------------------------------
(* C29: the timers of replaced messages *)

shownMessageIds == { formMsgs[i].id : i \in 1..Len(formMsgs) }
shownNoteIds == { notifications[i].id : i \in NoteIndices }

\* the step runs a callback of the timer set for message or notification id
messageTimerFires == lastEvent'.type = "removed"
noteTimerFires == lastEvent'.type \in {"animateIn", "autoRemove", "removeNotification"}

\* C29: a timer callback of a form message or of a notification leaves every
\* other message and notification in the document exactly as it was; when
\* its own message or notification is no longer in the document, the
\* document is unchanged.
C29_TimerTouchesOnlyOwnMessage ==
    [][ /\ messageTimerFires
           => /\ notifications' = notifications
              /\ \A k \in 1..Len(formMsgs) :
                    formMsgs[k].id # lastEvent'.field
                    => \E j \in 1..Len(formMsgs') : formMsgs'[j] = formMsgs[k]
              /\ lastEvent'.field \notin shownMessageIds => formMsgs' = formMsgs
        /\ noteTimerFires
           => /\ formMsgs' = formMsgs
              /\ \A k \in NoteIndices :
                    notifications[k].id # lastEvent'.field
                    => \E j \in 1..Len(notifications') : notifications'[j] = notifications[k]
              /\ lastEvent'.field \notin shownNoteIds => notifications' = notifications
      ]_vars

\* the 5 s timer of a replaced notification is due while a newer notification
\* is shown, and the 8 s timer of a replaced form message is pending while a
\* newer form message is shown
C29_Witness ==
    /\ \E i \in NoteTimerIndices :
          /\ noteTimers[i].kind = "autoRemove"
          /\ noteTimers[i].remaining = 0
          /\ noteTimers[i].id \notin shownNoteIds
    /\ notifications # <<>>
    /\ \E i \in TimerIndices :
          /\ timers[i].kind = "removeMessage"
          /\ timers[i].id \notin shownMessageIds
    /\ formMsgs # <<>>

\* the 8 s timer of a replaced form message is due while a newer one is shown
C29_WitnessFormMessage ==
    /\ \E i \in TimerIndices :
          /\ timers[i].kind = "removeMessage"
          /\ timers[i].remaining = 0
          /\ timers[i].id \notin shownMessageIds
    /\ formMsgs # <<>>

-----------------------------------------------------------------------------
(* C21: the scroll-to-top button *)

scrollButtonShown == scrollButtonOpacity = "1"

\* C21: at most one animation-frame callback is outstanding, one is
\* outstanding whenever the throttle is closed, and once scroll events have
\* happened and no callback is outstanding the button is shown iff the page
\* is scrolled past 300 px.
C21_ButtonFollowsScrollPosition ==
    /\ pendingFrames <= 1
    /\ scrollTicking <=> (pendingFrames = 1)
    /\ (scrolled /\ pendingFrames = 0)
       => (scrollButtonShown <=> (pageYOffset > SCROLL_THRESHOLD))

\* the callback has run after scroll events that the throttle dropped, the
\* last of which took the page back above the threshold position
C21_Witness ==
    /\ lastEvent.type = "frame"
    /\ pendingFrames = 0
    /\ isVisible
    /\ scrollButtonShown
    /\ pageYOffset = 301

\* a scroll event is dropped while a callback is outstanding and the button
\* disagrees with the scroll position
C21_WitnessDropped ==
    /\ lastEvent.type = "scroll"
    /\ ~lastEvent.validated
    /\ pendingFrames = 1
    /\ ~scrollButtonShown
    /\ pageYOffset > SCROLL_THRESHOLD

-----------------------------------------------------------------------------
(* C22: deferred images *)

\* C22: the source named by data-src is requested for an image only after an
\* observer has reported that image as intersecting, whether or not the
\* image also carries a placeholder src.
C22_LoadedAfterIntersection ==
    \A i \in ImageIds : (images[i].lazy /\ images[i].requested) => images[i].reported

\* the same for the images that carry data-src and no src attribute
C22_HoldsWithoutPlaceholder ==
    \A i \in ImageIds :
        (images[i].lazy /\ ~images[i].placeholder /\ images[i].requested)
        => images[i].reported

\* the same on a page where only ImageLoader defers the images
C22_HoldsForImageLoader ==
    (~mainLazyReady) =>
        \A i \in ImageIds : (images[i].lazy /\ images[i].requested) => images[i].reported

-----------------------------------------------------------------------------
(* C23: the image manifest *)

manifestUnavailable == manifestResponse \in {"rejected", "invalidJson"}

\* the manifest held when init() has finished has no entry for the last call
noEntryFor(call) ==
    \/ imageManifest.isNull
    \/ \A e \in imageManifest.entries :
          ~(e.category = call.category /\ e.name = stripExtension(call.imageName))

\* C23: the manifest is fetched at most once; no call of
\* getOptimizedImageSrc throws; a call made before init() has finished, after
\* a failed fetch or parse, or for an image the manifest has no entry for
\* returns '/assets/images/<imageName>'; and when init() has finished, lazy
\* loading is initialised, whatever became of the manifest.
C23_ManifestOptional ==
    /\ manifestFetches <= 1
    /\ (loaderPhase = "checkingWebP") => (manifestFetches = 0)
    /\ lastCall.called
       => /\ ~lastCall.threw
          /\ (lastCall.phase # "done" \/ manifestUnavailable \/ noEntryFor(lastCall))
             => lastCall.path = [dir |-> "/assets/images/", file |-> lastCall.imageName]
    /\ (loaderPhase = "done") => loaderLazyReady
    /\ manifestUnavailable => (loaderPhase = "done" /\ loaderLazyReady /\ imageManifest = NULL)

\* the fetch has failed, init() has finished with lazy loading initialised,
\* and getOptimizedImageSrc was called for an image after that
C23_Witness ==
    /\ manifestResponse = "rejected"
    /\ loaderLazyReady
    /\ lastCall.called
    /\ lastCall.phase = "done"
    /\ lastCall.path.file = <<"p", ".", "j", "p", "g">>

\* getOptimizedImageSrc was called while init() was still waiting
C23_WitnessBeforeInit ==
    /\ lastCall.called
    /\ lastCall.phase = "fetching"
    /\ loaderPhase = "done"
    /\ ~imageManifest.isNull
    /\ ~noEntryFor(lastCall)

-----------------------------------------------------------------------------
(* C24, C25: the form-submission endpoints *)

successShape == response.status = 200 /\ response.keys = {"success", "message", "leadId"}

errorShape == response.status \in {400, 405, 500} /\ "error" \in response.keys

\* local@domain.tld: one '@' with something before it and, in what follows
\* it, a '.' with something on both sides; no whitespace
localAtDomainTld(s) ==
    \E i, j \in 1..Len(s) :
        /\ 1 < i /\ i + 1 < j /\ j < Len(s)
        /\ s[i] = "@" /\ s[j] = "."
        /\ \A k \in (1..Len(s)) \ {i} : s[k] # "@" /\ s[k] # " "

acceptable ==
    /\ request.method = "POST"
    /\ request.body.name # <<>>
    /\ request.body.email # <<>>
    /\ request.body.courseInterest # <<>>
    /\ localAtDomainTld(request.body.email)
    /\ request.body.website = <<>>

missingOf(body) == { f \in {"name", "email", "courseInterest"} : body[f] = <<>> }

listed == { response.missingFields[i] : i \in 1..Len(response.missingFields) }

preflight == request.endpoint = "vercel" /\ request.method = "OPTIONS"

contractOfAnswer ==
    /\ successShape \/ errorShape
    /\ (response.status = 200) <=> acceptable
    /\ (request.method # "POST") => (response.status = 405)
    /\ ("missingFields" \in response.keys)
       => /\ response.status = 400
          /\ listed = missingOf(request.body)
          /\ Len(response.missingFields) = Cardinality(listed)
    /\ (request.method = "POST" /\ request.parsed /\ missingOf(request.body) # {})
       => "missingFields" \in response.keys

\* C24: every answer is a 200 with success, message and leadId or a 400, 405
\* or 500 with error; it is 200 iff the request is a POST with name, email and
\* courseInterest, an email of the shape local@domain.tld and an empty
\* honeypot; a non-POST request gets 405; a 400 for missing fields lists
\* exactly the missing required fields.
C24_ResponseContract == response.answered => contractOfAnswer

\* C24, but for the preflight of the Vercel function: an OPTIONS request to
\* it is answered 200 with an empty body and logs nothing; every other
\* request is answered as stated above.
C24_ResponseContractButPreflight ==
    response.answered
    => IF preflight
          THEN response.status = 200 /\ response.keys = {} /\ ~response.logged
          ELSE contractOfAnswer

\* a POST that lacks two of the three required fields was answered
C24_Witness ==
    /\ response.answered
    /\ request.method = "POST"
    /\ response.status = 400
    /\ Len(response.missingFields) = 2

\* an acceptable POST was answered
C24_WitnessSuccess ==
    /\ response.answered
    /\ acceptable
    /\ successShape

\* an OPTIONS request to the Vercel function was answered
C24_WitnessPreflight ==
    /\ response.answered
    /\ preflight

\* what a bot may have put into the hidden input
HoneypotValues == BodyWebsites \cup { <<" ">>, <<"a", "@">>, <<"h", "t", "t", "p">> }

\* the verdict of validateField on the inputs of the contact form when they
\* hold the submitted body and the hidden input 'website' holds w
clientValid(body, w) ==
    /\ validation([type |-> "text", name |-> "name", tagName |-> "input",
                   required |-> TRUE, value |-> body.name, checked |-> FALSE]).isValid
    /\ validation([type |-> "email", name |-> "email", tagName |-> "input",
                   required |-> TRUE, value |-> body.email, checked |-> FALSE]).isValid
    /\ validation([type |-> "select-one", name |-> "course", tagName |-> "select",
                   required |-> TRUE, value |-> body.courseInterest,
                   checked |-> FALSE]).isValid
    /\ validation([type |-> "text", name |-> "website", tagName |-> "input",
                   required |-> FALSE, value |-> w, checked |-> FALSE]).isValid

\* C25: a POST whose honeypot field 'website' is non-empty is never answered
\* 200 and never logged as a lead, whatever its other fields hold; and the
\* verdict of the client-side validation on the same fields is the same
\* whatever the honeypot input holds.
C25_HoneypotRejectedServerSide ==
    /\ (response.answered /\ request.method = "POST" /\ request.body.website # <<>>)
       => (response.status # 200 /\ ~response.logged)
    /\ \A w \in HoneypotValues :
          clientValid(request.body, w) <=> clientValid(request.body, <<>>)

\* a POST with every required field in order and the honeypot filled was
\* answered, and the client-side validation accepts the same fields
C25_Witness ==
    /\ response.answered
    /\ request.method = "POST"
    /\ request.body.website # <<>>
    /\ missingOf(request.body) = {}
    /\ emailRegex(request.body.email)
    /\ response.status = 400
    /\ clientValid(request.body, request.body.website)

====
